---- MODULE Spec2Model ----
(***************************************************************************)
(* Model of the parlay builder of the CXC dashboard: the parlay state kept *)
(* by the Home page (handlePickTeam, onRemoveLeg, onClear) and the         *)
(* valuation functions of ParlayBuilder.tsx evaluated on every render.     *)
(*                                                                         *)
(* JavaScript numbers are IEEE-754 doubles.  The valuation code multiplies,*)
(* adds and divides them, so the model carries a double as sign, 53-bit    *)
(* mantissa and exponent and rounds every operation to nearest-even, as    *)
(* the engine does.  Mantissas do not fit a TLC integer, so they are kept  *)
(* as little-endian sequences of 11-bit limbs.                             *)
(***************************************************************************)
EXTENDS Integers, Sequences, FiniteSets, TLC

----------------------------------------------------------------------------
(* Natural numbers of arbitrary size: little-endian sequences of limbs.    *)

LimbBits == 10 + 1
LimbBase == 2^LimbBits
MantBits == 50 + 3

RECURSIVE CarryFrom(_, _, _)
\* digits x (each possibly outside 0..LimbBase-1) with carry c entering at i
CarryFrom(x, i, c) ==
    IF i > Len(x)
    THEN IF c = 0 THEN <<>> ELSE <<c % LimbBase>> \o CarryFrom(x, i, c \div LimbBase)
    ELSE <<(x[i] + c) % LimbBase>> \o CarryFrom(x, i + 1, (x[i] + c) \div LimbBase)

Carry(x) == CarryFrom(x, 1, 0)

Limb(a, i) == IF i >= 1 /\ i <= Len(a) THEN a[i] ELSE 0

MaxOf(i, j) == IF i >= j THEN i ELSE j

\* a without its leading (most significant) zero limbs
BTrim(a) ==
    LET nz == {i \in 1..Len(a) : a[i] # 0}
    IN  IF nz = {} THEN <<>>
        ELSE SubSeq(a, 1, CHOOSE i \in nz : \A j \in nz : j <= i)

BIsZero(a) == BTrim(a) = <<>>

BFromInt(n) == Carry(<<n>>)

BAdd(a, b) == BTrim(Carry([i \in 1..MaxOf(Len(a), Len(b)) |-> Limb(a, i) + Limb(b, i)]))

\* a - b for a >= b
BSub(a, b) == BTrim(Carry([i \in 1..MaxOf(Len(a), Len(b)) |-> Limb(a, i) - Limb(b, i)]))

\* -1, 0, 1 as a < b, a = b, a > b
BCmp(a, b) ==
    LET df == {i \in 1..MaxOf(Len(a), Len(b)) : Limb(a, i) # Limb(b, i)}
        top == CHOOSE i \in df : \A j \in df : j <= i
    IN  IF df = {} THEN 0 ELSE IF Limb(a, top) > Limb(b, top) THEN 1 ELSE -1

RECURSIVE ColumnSum(_, _, _, _)
ColumnSum(a, b, k, i) ==
    IF i > Len(a) THEN 0
    ELSE Limb(a, i) * Limb(b, k + 1 - i) + ColumnSum(a, b, k, i + 1)

BMul(a, b) ==
    IF Len(a) = 0 \/ Len(b) = 0 THEN <<>>
    ELSE BTrim(Carry([k \in 1..(Len(a) + Len(b) - 1) |-> ColumnSum(a, b, k, 1)]))

\* a * k for 0 <= k <= LimbBase
BMulSmall(a, k) == BTrim(Carry([i \in 1..Len(a) |-> a[i] * k]))

RECURSIVE IntBitLen(_)
IntBitLen(n) == IF n = 0 THEN 0 ELSE 1 + IntBitLen(n \div 2)

BBitLen(a) ==
    LET t == BTrim(a)
    IN  IF t = <<>> THEN 0 ELSE (Len(t) - 1) * LimbBits + IntBitLen(t[Len(t)])

\* a * 2^k
BShl(a, k) ==
    LET t == BTrim(a)
    IN  IF t = <<>> THEN <<>>
        ELSE [i \in 1..(k \div LimbBits) |-> 0] \o BMulSmall(t, 2^(k % LimbBits))

\* floor(a / 2^k)
BShr(a, k) ==
    LET q == k \div LimbBits
        r == k % LimbBits
        d == IF q >= Len(a) THEN <<>> ELSE SubSeq(a, q + 1, Len(a))
    IN  BTrim([i \in 1..Len(d) |->
                 (d[i] \div 2^r) + (Limb(d, i + 1) % 2^r) * 2^(LimbBits - r)])

\* bit k (from 0) of a
BBit(a, k) == (Limb(a, (k \div LimbBits) + 1) \div 2^(k % LimbBits)) % 2

\* a mod 2^k is not zero
BLowNonZero(a, k) == BCmp(BShl(BShr(a, k), k), a) # 0

MinOf(i, j) == IF i <= j THEN i ELSE j

\* floor(r / b) for r < b * LimbBase and b a trimmed mantissa (top limb below 2^9,
\* so the three-limb estimate fits an integer): the quotient lies between the
\* estimates from the leading limbs, and the one that fits is chosen
DigitOf(r, b) ==
    LET n  == Len(b)
        bt == b[n] * LimbBase + Limb(b, n - 1)
        rt == (Limb(r, n + 1) * LimbBase + Limb(r, n)) * LimbBase + Limb(r, n - 1)
        lo == rt \div (bt + 1)
        hi == MinOf(LimbBase - 1, rt \div bt)
    IN  CHOOSE d \in lo..hi :
            /\ BCmp(BMulSmall(b, d), r) <= 0
            /\ BCmp(BMulSmall(b, d + 1), r) > 0

Reverse(s) == [i \in 1..Len(s) |-> s[Len(s) + 1 - i]]

\* one step of long division: limb x brought down onto the remainder p.rem < b;
\* p.quo holds the quotient's limbs so far, most significant first
BDivStep(p, x, b) ==
    LET r2 == BTrim(<<x>> \o p.rem)
        d  == DigitOf(r2, b)
    IN  [quo |-> p.quo \o <<d>>, rem |-> BSub(r2, BMulSmall(b, d))]

\* [quo, rem] of a divided by b, b # 0: schoolbook long division
BDivMod(a, b) ==
    LET n == Len(a)
        step[i \in 0..n] ==
            IF i = 0 THEN [quo |-> <<>>, rem |-> <<>>]
            ELSE BDivStep(step[i - 1], a[n + 1 - i], b)
        last == step[n]
    IN  [quo |-> Reverse(last.quo), rem |-> last.rem]

----------------------------------------------------------------------------
(* IEEE-754 doubles: value = sgn * man * 2^exp with 2^52 <= man < 2^53.    *)
(* Exponents stay far inside the double range for the inputs modelled, so  *)
(* overflow and subnormals are not modelled; division by zero gives        *)
(* Infinity or NaN as in JavaScript.                                       *)

FZero == [cls |-> "zero", sgn |-> 1, man |-> <<>>, exp |-> 0]
FNegZero == [cls |-> "zero", sgn |-> -1, man |-> <<>>, exp |-> 0]
FNaN == [cls |-> "nan", sgn |-> 1, man |-> <<>>, exp |-> 0]
FInf(s) == [cls |-> "inf", sgn |-> s, man |-> <<>>, exp |-> 0]

\* the double nearest to s * (n + t) * 2^e, where 0 < t < 1 if sticky, else t = 0;
\* ties to even
FRound(s, n, e, sticky) ==
    LET len == BBitLen(n)
    IN  IF len = 0 THEN [FZero EXCEPT !.sgn = s]
        ELSE IF len <= MantBits
        THEN [cls |-> "num", sgn |-> s, man |-> BShl(n, MantBits - len),
              exp |-> e - (MantBits - len)]
        ELSE LET k    == len - MantBits
                 q    == BShr(n, k)
                 half == BBit(n, k - 1) = 1
                 low  == sticky \/ BLowNonZero(n, k - 1)
                 up   == half /\ (low \/ BBit(q, 0) = 1)
                 q1   == IF up THEN BAdd(q, <<1>>) ELSE q
             IN  IF BBitLen(q1) > MantBits
                 THEN [cls |-> "num", sgn |-> s, man |-> BShr(q1, 1), exp |-> e + k + 1]
                 ELSE [cls |-> "num", sgn |-> s, man |-> q1, exp |-> e + k]

\* the double of the integer n, |n| < 2^31
FInt(n) == IF n < 0 THEN FRound(-1, BFromInt(-n), 0, FALSE)
           ELSE FRound(1, BFromInt(n), 0, FALSE)

FNeg(a) == IF a.cls = "nan" THEN a ELSE [a EXCEPT !.sgn = -a.sgn]

FAbs(a) == IF a.cls = "nan" THEN a ELSE [a EXCEPT !.sgn = 1]

\* a * b
FMul(a, b) ==
    IF a.cls = "nan" \/ b.cls = "nan" THEN FNaN
    ELSE IF a.cls = "inf" \/ b.cls = "inf"
    THEN IF a.cls = "zero" \/ b.cls = "zero" THEN FNaN ELSE FInf(a.sgn * b.sgn)
    ELSE IF a.cls = "zero" \/ b.cls = "zero" THEN [FZero EXCEPT !.sgn = a.sgn * b.sgn]
    ELSE FRound(a.sgn * b.sgn, BMul(a.man, b.man), a.exp + b.exp, FALSE)

\* a / b
FDiv(a, b) ==
    IF a.cls = "nan" \/ b.cls = "nan" THEN FNaN
    ELSE IF a.cls = "inf"
    THEN IF b.cls = "inf" THEN FNaN ELSE FInf(a.sgn * b.sgn)
    ELSE IF b.cls = "inf" THEN [FZero EXCEPT !.sgn = a.sgn * b.sgn]
    ELSE IF b.cls = "zero"
    THEN IF a.cls = "zero" THEN FNaN ELSE FInf(a.sgn * b.sgn)
    ELSE IF a.cls = "zero" THEN [FZero EXCEPT !.sgn = a.sgn * b.sgn]
    ELSE LET d == BDivMod(BShl(a.man, MantBits + 3), b.man)
         IN  FRound(a.sgn * b.sgn, d.quo, a.exp - b.exp - (MantBits + 3),
                    ~BIsZero(d.rem))

\* magnitudes of two finite non-zero doubles brought to the smaller exponent
FAlign(a, b) ==
    LET e == IF a.exp <= b.exp THEN a.exp ELSE b.exp
    IN  [x |-> BShl(a.man, a.exp - e), y |-> BShl(b.man, b.exp - e), exp |-> e]

\* a + b
FAdd(a, b) ==
    IF a.cls = "nan" \/ b.cls = "nan" THEN FNaN
    ELSE IF a.cls = "inf"
    THEN IF b.cls = "inf" /\ b.sgn # a.sgn THEN FNaN ELSE a
    ELSE IF b.cls = "inf" THEN b
    ELSE IF a.cls = "zero"
    THEN IF b.cls = "zero" THEN (IF a.sgn = -1 /\ b.sgn = -1 THEN FNegZero ELSE FZero)
         ELSE b
    ELSE IF b.cls = "zero" THEN a
    ELSE LET al == FAlign(a, b)
             c  == BCmp(al.x, al.y)
         IN  IF a.sgn = b.sgn THEN FRound(a.sgn, BAdd(al.x, al.y), al.exp, FALSE)
             ELSE IF c = 0 THEN FZero
             ELSE IF c > 0 THEN FRound(a.sgn, BSub(al.x, al.y), al.exp, FALSE)
             ELSE FRound(b.sgn, BSub(al.y, al.x), al.exp, FALSE)

\* a - b
FSub(a, b) == FAdd(a, FNeg(b))

\* a < b for finite non-zero a, b of the same sign s: by exponent, then mantissa
\* (mantissas are normalised, so the larger exponent is the larger magnitude)
MagLt(a, b) ==
    IF a.exp # b.exp THEN a.exp < b.exp ELSE BCmp(a.man, b.man) < 0

\* a < b (false when either is NaN)
FLt(a, b) ==
    IF a.cls = "nan" \/ b.cls = "nan" THEN FALSE
    ELSE IF a.cls = "zero" THEN b.cls # "zero" /\ b.sgn = 1
    ELSE IF b.cls = "zero" THEN a.sgn = -1
    ELSE IF a.sgn # b.sgn THEN a.sgn < b.sgn
    ELSE IF a.cls = "inf" \/ b.cls = "inf"
    THEN IF a.sgn = 1 THEN a.cls # "inf" ELSE b.cls # "inf"
    ELSE IF a.sgn = 1 THEN MagLt(a, b) ELSE MagLt(b, a)

FGt(a, b) == FLt(b, a)

\* a === b on numbers (0 equals -0, NaN equals nothing)
FEq(a, b) ==
    a.cls # "nan" /\ b.cls # "nan"
    /\ (a = b \/ (a.cls = "zero" /\ b.cls = "zero"))

FLe(a, b) == FLt(a, b) \/ FEq(a, b)

FGe(a, b) == FLe(b, a)

FIsFinite(a) == a.cls \in {"zero", "num"}

\* the double written n/d in decimal (d a power of ten), e.g. FDec(15, 100) is 0.15
FDec(n, d) == FDiv(FInt(n), FInt(d))

\* Math.round(x): the integer nearest x, ties towards +Infinity
MathRound(a) ==
    IF a.cls # "num" \/ a.exp >= 0 THEN a
    ELSE LET f    == -a.exp
             half == BShl(<<1>>, f - 1)
         IN  IF a.sgn = 1
             THEN FRound(1, BShr(BAdd(a.man, half), f), 0, FALSE)
             ELSE IF BCmp(a.man, half) <= 0 THEN FNegZero
             ELSE FRound(-1, BShr(BAdd(BSub(a.man, half), BSub(BShl(<<1>>, f), <<1>>)), f),
                         0, FALSE)

\* the integer a small natural number's limbs denote
BToInt(a) == Limb(a, 1) + Limb(a, 2) * LimbBase + Limb(a, 3) * LimbBase * LimbBase

\* the integer an integral double of magnitude below 2^31 holds
FToInt(a) ==
    IF a.cls = "zero" THEN 0
    ELSE a.sgn * BToInt(IF a.exp <= 0 THEN BShr(a.man, -a.exp) ELSE BShl(a.man, a.exp))

----------------------------------------------------------------------------
(* JavaScript values.  A probability arrives as a decimal literal of the   *)
(* API's JSON; the state keeps its numerator over Scale and Num gives the  *)
(* double the literal parses to.                                           *)

Scale == 10^3

\* the probabilities of the single legs: -0.05 .. 1.05 in steps of 0.001
Margin == 50
ProbRange == (-Margin)..(Scale + Margin)

NumTable == [n \in ProbRange |-> FDec(n, Scale)]

\* the double the decimal literal n/Scale parses to
Num(n) == NumTable[n]

\* the number literals of ParlayBuilder.tsx, as the doubles they denote
D001 == FDec(1, 100)
D099 == FDec(99, 100)
D05 == FDec(5, 10)
D115 == FDec(115, 100)
D085 == FDec(85, 100)
D06 == FDec(6, 10)
D045 == FDec(45, 100)
D065 == FDec(65, 100)
D052 == FDec(52, 100)
D03 == FDec(3, 10)
D01 == FDec(1, 10)
I9999 == FInt(9999)
IMinus9999 == FInt(-9999)
I100 == FInt(100)
IMinus100 == FInt(-100)
I1 == FInt(1)
I2 == FInt(2)
I50 == FInt(50)
I20 == FInt(20)
I10 == FInt(10)
I15 == FInt(15)
I65 == FInt(65)
I55 == FInt(55)
I45 == FInt(45)
I35 == FInt(35)
I25 == FInt(25)
I5 == FInt(5)
IMinus10 == FInt(-10)

\* null and undefined, which the code does not tell apart
Null == [null |-> TRUE]

\* the text of a number after a prefix, as a template literal writes it: two texts
\* are the same string exactly when prefix and number agree; -0 prints as 0
Str(prefix, x) == [pre |-> prefix, num |-> IF x.cls = "zero" THEN FZero ELSE x]

\* 1e21, from which toFixed falls back to String(x)
TenTo21 == FMul(FMul(FInt(10^7), FInt(10^7)), FInt(10^7))

\* x.toFixed(f) for f in 0..3: the integer n nearest |x| * 10^f (the larger on a tie)
\* with the sign and the number of decimals
ToFixed(x, f) ==
    IF ~FIsFinite(x) \/ FGe(FAbs(x), TenTo21) THEN [pre |-> "String", num |-> x]
    ELSE IF x.cls = "zero" THEN [neg |-> FALSE, digits |-> <<>>, decimals |-> f]
    ELSE LET m10 == BMulSmall(x.man, 10^f)
             n   == IF x.exp >= 0 THEN BShl(m10, x.exp)
                    ELSE BShr(BAdd(m10, BShl(<<1>>, -x.exp - 1)), -x.exp)
         IN  [neg |-> x.sgn = -1, digits |-> n, decimals |-> f]

RECURSIVE ProductOf(_, _)
\* xs.reduce((p, x) => p * x, 1) over the first n elements
ProductOf(xs, n) == IF n = 0 THEN I1 ELSE FMul(ProductOf(xs, n - 1), xs[n])

RECURSIVE SumOf(_, _)
\* xs.reduce((s, x) => s + x, 0) over the first n elements
SumOf(xs, n) == IF n = 0 THEN FZero ELSE FAdd(SumOf(xs, n - 1), xs[n])

\* s.filter(keep), keep a set of indices
RECURSIVE FilterIdx(_, _, _)
FilterIdx(s, keep, i) ==
    IF i > Len(s) THEN <<>>
    ELSE (IF i \in keep THEN <<s[i]>> ELSE <<>>) \o FilterIdx(s, keep, i + 1)

----------------------------------------------------------------------------
(* ParlayBuilder.tsx: the valuation functions.                             *)

\* probToAmericanOdds with the underdog's odds taken from 1 / prob
ProbToAmericanOddsNoComplement(prob) ==
    IF FLe(prob, D001) THEN Str("+", I9999)
    ELSE IF FGe(prob, D099) THEN Str("", IMinus9999)
    ELSE IF FGe(prob, D05)
    THEN Str("", MathRound(FMul(FDiv(prob, FSub(I1, prob)), IMinus100)))
    ELSE Str("+", MathRound(FMul(FDiv(I1, prob), I100)))

\* probToAmericanOdds(prob)
ProbToAmericanOdds(prob) ==
    IF FLe(prob, D001) THEN Str("+", I9999)
    ELSE IF FGe(prob, D099) THEN Str("", IMinus9999)
    ELSE IF FGe(prob, D05)
    THEN Str("", MathRound(FMul(FDiv(prob, FSub(I1, prob)), IMinus100)))
    ELSE Str("+", MathRound(FMul(FDiv(FSub(I1, prob), prob), I100)))

\* probToDecimalOdds without the clamp
ProbToDecimalOddsNoClamp(prob) == FDiv(I1, prob)

\* probToDecimalOdds(prob)
ProbToDecimalOdds(prob) ==
    IF FLe(prob, D001) THEN I100 ELSE FDiv(I1, prob)

\* decimalToAmericanOdds that keeps the stake in the underdog branch
DecimalToAmericanOddsWithStake(decimal) ==
    IF FGe(decimal, I2)
    THEN Str("+", MathRound(FMul(decimal, I100)))
    ELSE Str("", MathRound(FDiv(IMinus100, FSub(decimal, I1))))

\* decimalToAmericanOdds(decimal)
DecimalToAmericanOdds(decimal) ==
    IF FGe(decimal, I2)
    THEN Str("+", MathRound(FMul(FSub(decimal, I1), I100)))
    ELSE Str("", MathRound(FDiv(IMinus100, FSub(decimal, I1))))

ModelProbs(legs) == [i \in 1..Len(legs) |-> Num(legs[i].modelProb)]

MarketProbs(legs) == [i \in 1..Len(legs) |-> Num(legs[i].marketProb)]

\* mktPayout taken over the model probabilities instead
MarketPayoutFromModel(legs) ==
    LET mp == ModelProbs(legs)
    IN  ProductOf([i \in 1..Len(legs) |-> ProbToDecimalOdds(mp[i])], Len(legs))

\* legs.reduce((acc, l) => acc * probToDecimalOdds(l.marketProb), 1)
MarketPayout(legs) ==
    LET mk == MarketProbs(legs)
    IN  ProductOf([i \in 1..Len(legs) |-> ProbToDecimalOdds(mk[i])], Len(legs))

\* (modelProb > 0.5 && marketProb > 0.5) || (modelProb < 0.5 && marketProb < 0.5)
LegAgrees(m, k) ==
    \/ FGt(m, D05) /\ FGt(k, D05)
    \/ FLt(m, D05) /\ FLt(k, D05)

Reason(rule, variant, type, args) ==
    [rule |-> rule, variant |-> variant, type |-> type, args |-> args]

\* edgeRatio of generateParlayReasoning: combinedModelProb / combinedMarketProb
EdgeRatio(legs) ==
    FDiv(ProductOf(ModelProbs(legs), Len(legs)), ProductOf(MarketProbs(legs), Len(legs)))

\* fairPayout of generateParlayReasoning: 1 / combinedModelProb
FairPayout(legs) == FDiv(I1, ProductOf(ModelProbs(legs), Len(legs)))

\* avgModelProb of generateParlayReasoning
AvgModelProb(legs) == FDiv(SumOf(ModelProbs(legs), Len(legs)), FInt(Len(legs)))

\* ev as the return of the stake: ((mktPayout / fairPayout) - 1) * 100
ExpectedValueOfStake(legs) ==
    FMul(FSub(FDiv(MarketPayout(legs), FairPayout(legs)), I1), I100)

\* ev of generateParlayReasoning: ((fairPayout / mktPayout) - 1) * 100
ExpectedValue(legs) ==
    FMul(FSub(FDiv(FairPayout(legs), MarketPayout(legs)), I1), I100)

\* the edge statements with the three thresholds tested independently
EdgeReasonsIndependent(legs) ==
    LET edgeRatio == EdgeRatio(legs)
        edgePct   == ToFixed(FMul(FSub(edgeRatio, I1), I100), 0)
    IN  (IF FGt(edgeRatio, D115)
         THEN <<Reason("edge", "strong value", "positive", <<edgePct>>)>> ELSE <<>>)
        \o (IF FGt(edgeRatio, I1)
            THEN <<Reason("edge", "slight edge", "positive", <<edgePct>>)>> ELSE <<>>)
        \o (IF FLt(edgeRatio, D085)
            THEN <<Reason("edge", "premium", "negative", <<>>)>> ELSE <<>>)

\* generateParlayReasoning, "Edge value": the statement on edgeRatio
EdgeReasons(legs) ==
    LET edgeRatio == EdgeRatio(legs)
        edgePct   == ToFixed(FMul(FSub(edgeRatio, I1), I100), 0)
    IN  IF FGt(edgeRatio, D115)
        THEN <<Reason("edge", "strong value", "positive", <<edgePct>>)>>
        ELSE IF FGt(edgeRatio, I1)
        THEN <<Reason("edge", "slight edge", "positive", <<edgePct>>)>>
        ELSE IF FLt(edgeRatio, D085)
        THEN <<Reason("edge", "premium", "negative", <<>>)>>
        ELSE <<>>

\* indices of strongLegs, weakLegs and edgeLegs
StrongLegs(legs) == {i \in 1..Len(legs) : FGe(Num(legs[i].modelProb), D06)}
WeakLegs(legs) == {i \in 1..Len(legs) : FLt(Num(legs[i].modelProb), D045)}
\* edgeLegs with a probability of exactly 0.5 counted as favoured
EdgeLegsAtLeastHalf(legs) ==
    {i \in 1..Len(legs) :
        FGe(Num(legs[i].modelProb), D05) # FGe(Num(legs[i].marketProb), D05)}

EdgeLegs(legs) ==
    {i \in 1..Len(legs) :
        FGt(Num(legs[i].modelProb), D05) # FGt(Num(legs[i].marketProb), D05)}

\* the picked teams of the legs at the indices keep, in order
PickedTeams(legs, keep) ==
    FilterIdx([i \in 1..Len(legs) |-> legs[i].pickedTeam], keep, 1)

\* generateParlayReasoning, "Individual leg analysis": the three statements
StrongLegReasons(legs) ==
    LET strongLegs == StrongLegs(legs)
    IN  IF Cardinality(strongLegs) > 0
        THEN <<Reason("strong legs",
                      IF Cardinality(strongLegs) = 1 THEN "is a strong pick"
                      ELSE "are strong picks",
                      "positive", PickedTeams(legs, strongLegs))>>
        ELSE <<>>

WeakLegReasons(legs) ==
    LET weakLegs == WeakLegs(legs)
    IN  IF Cardinality(weakLegs) > 0
        THEN <<Reason("weak legs",
                      IF Cardinality(weakLegs) = 1 THEN "is an underdog pick"
                      ELSE "are underdog picks",
                      "negative", PickedTeams(legs, weakLegs))>>
        ELSE <<>>

AgainstMarketReasons(legs) ==
    LET edgeLegs == EdgeLegs(legs)
    IN  IF Cardinality(edgeLegs) > 0
        THEN <<Reason("against market",
                      IF Cardinality(edgeLegs) > 1 THEN "picks go" ELSE "pick goes",
                      "positive", <<Cardinality(edgeLegs)>>)>>
        ELSE <<>>

\* allAgree: legs.every(...)
AllAgree(legs) ==
    \A i \in 1..Len(legs) : LegAgrees(Num(legs[i].modelProb), Num(legs[i].marketProb))

\* the consensus statement without the test on the number of legs
ConsensusReasonsAnyLength(legs) ==
    IF AllAgree(legs)
    THEN <<Reason("consensus", "all picks align", "positive", <<>>)>>
    ELSE <<>>

\* generateParlayReasoning, "Consensus alignment"
ConsensusReasons(legs) ==
    IF AllAgree(legs) /\ Len(legs) >= 2
    THEN <<Reason("consensus", "all picks align", "positive", <<>>)>>
    ELSE <<>>

\* the leg-count statement with a single leg treated as a 2-leg parlay
LegCountReasonsFromOneLeg(legs) ==
    LET n == Len(legs)
    IN  IF n <= 2
        THEN <<Reason("leg count", "2-leg", "positive",
                      <<ToFixed(MarketPayout(legs), 1)>>)>>
        ELSE IF n = 3
        THEN <<Reason("leg count", "3-leg sweet spot", "neutral",
                      <<ToFixed(MarketPayout(legs), 1)>>)>>
        ELSE IF n >= 4 /\ n <= 5
        THEN <<Reason("leg count", "aggressive", "negative", <<n>>)>>
        ELSE <<Reason("leg count", "lottery ticket", "negative", <<n>>)>>

\* the leg-count statement with the lottery ticket starting at five legs
LegCountReasonsEarlyLottery(legs) ==
    LET n == Len(legs)
    IN  IF n = 2
        THEN <<Reason("leg count", "2-leg", "positive",
                      <<ToFixed(MarketPayout(legs), 1)>>)>>
        ELSE IF n = 3
        THEN <<Reason("leg count", "3-leg sweet spot", "neutral",
                      <<ToFixed(MarketPayout(legs), 1)>>)>>
        ELSE IF n = 4
        THEN <<Reason("leg count", "aggressive", "negative", <<n>>)>>
        ELSE IF n >= 5
        THEN <<Reason("leg count", "lottery ticket", "negative", <<n>>)>>
        ELSE <<>>

\* generateParlayReasoning, "Leg count"
LegCountReasons(legs) ==
    LET n == Len(legs)
    IN  IF n = 2
        THEN <<Reason("leg count", "2-leg", "positive",
                      <<ToFixed(MarketPayout(legs), 1)>>)>>
        ELSE IF n = 3
        THEN <<Reason("leg count", "3-leg sweet spot", "neutral",
                      <<ToFixed(MarketPayout(legs), 1)>>)>>
        ELSE IF n >= 4 /\ n <= 5
        THEN <<Reason("leg count", "aggressive", "negative", <<n>>)>>
        ELSE IF n > 5
        THEN <<Reason("leg count", "lottery ticket", "negative", <<n>>)>>
        ELSE <<>>

\* generateParlayReasoning, "Average confidence"
ConfidenceReasons(legs) ==
    LET avgModelProb == AvgModelProb(legs)
        avgPct       == ToFixed(FMul(avgModelProb, I100), 0)
    IN  IF FGe(avgModelProb, D065)
        THEN <<Reason("average confidence", "individually strong", "positive",
                      <<avgPct>>)>>
        ELSE IF FLt(avgModelProb, D052)
        THEN <<Reason("average confidence", "coin-flip picks", "negative",
                      <<avgPct>>)>>
        ELSE <<>>

\* generateParlayReasoning, "EV analysis"
ExpectedValueReasons(legs) ==
    LET ev == ExpectedValue(legs)
    IN  IF FGt(ev, I5)
        THEN <<Reason("expected value", "+EV", "positive", <<ToFixed(ev, 0)>>)>>
        ELSE IF FLt(ev, IMinus10)
        THEN <<Reason("expected value", "negative EV", "negative",
                      <<ToFixed(ev, 0)>>)>>
        ELSE <<>>

\* the statements with the leg analysis pushed after the leg count
GenerateParlayReasoningLegsLast(legs) ==
    IF Len(legs) = 0 THEN <<>>
    ELSE EdgeReasons(legs) \o ConsensusReasons(legs) \o LegCountReasons(legs)
             \o StrongLegReasons(legs) \o WeakLegReasons(legs)
             \o AgainstMarketReasons(legs) \o ConfidenceReasons(legs)
             \o ExpectedValueReasons(legs)

\* generateParlayReasoning(legs): the statements pushed, in the order of the code
GenerateParlayReasoning(legs) ==
    IF Len(legs) = 0 THEN <<>>
    ELSE EdgeReasons(legs) \o StrongLegReasons(legs) \o WeakLegReasons(legs)
             \o AgainstMarketReasons(legs) \o ConsensusReasons(legs)
             \o LegCountReasons(legs) \o ConfidenceReasons(legs)
             \o ExpectedValueReasons(legs)

\* the score without the penalty for five or more legs
ParlayScoreNoPenalty(legs) ==
    LET n  == Len(legs)
        mp == ModelProbs(legs)
        mk == MarketProbs(legs)
        avgConf      == FDiv(SumOf(mp, n), FInt(n))
        combinedProb == ProductOf(mp, n)
        allAgree     == \A i \in 1..n : LegAgrees(mp[i], mk[i])
        s0 == FAdd(FMul(avgConf, I50), IF allAgree THEN I20 ELSE FZero)
        s1 == IF n <= 2 THEN FAdd(s0, I10) ELSE s0
        s3 == IF FGt(combinedProb, D03) THEN FAdd(s1, I10) ELSE s1
    IN  IF FLt(combinedProb, D01) THEN FSub(s3, I10) ELSE s3

\* the score without the bonuses for agreement and for few legs
ParlayScoreConfidenceOnly(legs) ==
    LET n  == Len(legs)
        mp == ModelProbs(legs)
        avgConf      == FDiv(SumOf(mp, n), FInt(n))
        combinedProb == ProductOf(mp, n)
        s1 == FMul(avgConf, I50)
        s2 == IF n >= 5 THEN FSub(s1, I15) ELSE s1
        s3 == IF FGt(combinedProb, D03) THEN FAdd(s2, I10) ELSE s2
    IN  IF FLt(combinedProb, D01) THEN FSub(s3, I10) ELSE s3

\* the score with the penalty only above five legs
ParlayScoreLatePenalty(legs) ==
    LET n  == Len(legs)
        mp == ModelProbs(legs)
        mk == MarketProbs(legs)
        avgConf      == FDiv(SumOf(mp, n), FInt(n))
        combinedProb == ProductOf(mp, n)
        allAgree     == \A i \in 1..n : LegAgrees(mp[i], mk[i])
        s0 == FAdd(FMul(avgConf, I50), IF allAgree THEN I20 ELSE FZero)
        s1 == IF n <= 2 THEN FAdd(s0, I10) ELSE s0
        s2 == IF n > 5 THEN FSub(s1, I15) ELSE s1
        s3 == IF FGt(combinedProb, D03) THEN FAdd(s2, I10) ELSE s2
    IN  IF FLt(combinedProb, D01) THEN FSub(s3, I10) ELSE s3

\* the score getParlayGrade accumulates for a non-empty parlay
ParlayScore(legs) ==
    LET n  == Len(legs)
        mp == ModelProbs(legs)
        mk == MarketProbs(legs)
        avgConf      == FDiv(SumOf(mp, n), FInt(n))
        combinedProb == ProductOf(mp, n)
        allAgree     == \A i \in 1..n : LegAgrees(mp[i], mk[i])
        s0 == FAdd(FMul(avgConf, I50), IF allAgree THEN I20 ELSE FZero)
        s1 == IF n <= 2 THEN FAdd(s0, I10) ELSE s0
        s2 == IF n >= 5 THEN FSub(s1, I15) ELSE s1
        s3 == IF FGt(combinedProb, D03) THEN FAdd(s2, I10) ELSE s2
    IN  IF FLt(combinedProb, D01) THEN FSub(s3, I10) ELSE s3

Grade(g, l) == [grade |-> g, label |-> l]

\* the one-character grade of the empty parlay, an em dash (U+2014)
EmDash == "em dash"

\* getParlayGrade without the early return for the empty parlay
GetParlayGradeNoGuard(legs) ==
    LET score == ParlayScore(legs)
    IN  IF FGe(score, I65) THEN Grade("A+", "Strong Parlay")
        ELSE IF FGe(score, I55) THEN Grade("A", "Great Parlay")
        ELSE IF FGe(score, I45) THEN Grade("B+", "Good Parlay")
        ELSE IF FGe(score, I35) THEN Grade("B", "Decent")
        ELSE IF FGe(score, I25) THEN Grade("C", "Risky")
        ELSE IF FGe(score, I15) THEN Grade("D", "Long Shot")
        ELSE Grade("F", "Degen Mode")

\* getParlayGrade(legs), without the colours
GetParlayGrade(legs) ==
    IF Len(legs) = 0 THEN Grade(EmDash, "Add picks")
    ELSE LET score == ParlayScore(legs)
         IN  IF FGe(score, I65) THEN Grade("A+", "Strong Parlay")
             ELSE IF FGe(score, I55) THEN Grade("A", "Great Parlay")
             ELSE IF FGe(score, I45) THEN Grade("B+", "Good Parlay")
             ELSE IF FGe(score, I35) THEN Grade("B", "Decent")
             ELSE IF FGe(score, I25) THEN Grade("C", "Risky")
             ELSE IF FGe(score, I15) THEN Grade("D", "Long Shot")
             ELSE Grade("F", "Degen Mode")

\* what one leg's card shows
LegRow(l) ==
    [gameId            |-> l.game.id,
     legDecimalOdds    |-> ProbToDecimalOdds(Num(l.marketProb)),
     legAmericanOdds   |-> ProbToAmericanOdds(Num(l.marketProb)),
     modelAmericanOdds |-> ProbToAmericanOdds(Num(l.modelProb))]

\* combinedModelProb whose reducer drops the accumulator
CombinedModelProbLastLeg(legs) ==
    IF Len(legs) > 0 THEN Num(legs[Len(legs)].modelProb) ELSE FZero

\* combinedModelProb of ParlayBuilder
CombinedModelProb(legs) ==
    IF Len(legs) > 0 THEN ProductOf(ModelProbs(legs), Len(legs)) ELSE FZero

\* combinedMarketProb of ParlayBuilder
CombinedMarketProb(legs) ==
    IF Len(legs) > 0 THEN ProductOf(MarketProbs(legs), Len(legs)) ELSE FZero

\* marketDecimalOdds of ParlayBuilder
MarketDecimalOdds(legs) == IF Len(legs) > 0 THEN MarketPayout(legs) ELSE FZero

\* parlayAmericanOdds of ParlayBuilder
ParlayAmericanOdds(legs) ==
    LET marketDecimalOdds == MarketDecimalOdds(legs)
    IN  IF FGt(marketDecimalOdds, FZero) THEN DecimalToAmericanOdds(marketDecimalOdds)
        ELSE Str("+", FZero)

\* ParlayBuilder({legs}): the values the component derives on every render
ParlayBuilder(legs) ==
    [combinedModelProb  |-> CombinedModelProb(legs),
     combinedMarketProb |-> CombinedMarketProb(legs),
     marketDecimalOdds  |-> MarketDecimalOdds(legs),
     parlayAmericanOdds |-> ParlayAmericanOdds(legs),
     grade              |-> GetParlayGrade(legs),
     reasoning          |-> GenerateParlayReasoning(legs),
     rows               |-> [i \in 1..Len(legs) |-> LegRow(legs[i])]]

----------------------------------------------------------------------------
(* Texts the code takes apart are sequences of their characters (team      *)
(* names) or of their words (error messages).                              *)

LowerOf ==
    [A |-> "a", B |-> "b", C |-> "c", D |-> "d", E |-> "e", F |-> "f", G |-> "g",
     H |-> "h", I |-> "i", J |-> "j", K |-> "k", L |-> "l", M |-> "m", N |-> "n",
     O |-> "o", P |-> "p", Q |-> "q", R |-> "r", S |-> "s", T |-> "t", U |-> "u",
     V |-> "v", W |-> "w", X |-> "x", Y |-> "y", Z |-> "z"]

\* s.toLowerCase()
ToLowerCase(s) ==
    [i \in 1..Len(s) |-> IF s[i] \in DOMAIN LowerOf THEN LowerOf[s[i]] ELSE s[i]]

\* s.includes(t)
Includes(s, t) == \E i \in 0..(Len(s) - Len(t)) : SubSeq(s, i + 1, i + Len(t)) = t

----------------------------------------------------------------------------
(* What the backend can answer: fetchAllNBA() and fetchPredictions().      *)

\* the games of one response
NumGames == 2

Nets    == <<"N", "e", "t", "s">>
Hornets == <<"H", "o", "r", "n", "e", "t", "s">>
Lakers  == <<"L", "a", "k", "e", "r", "s">>
Celtics == <<"C", "e", "l", "t", "i", "c", "s">>

TeamNames == <<Nets, Hornets, Lakers, Celtics>>

\* the name of team k (1 or 2) of game i
TeamName(i, k) == TeamNames[((2 * (i - 1) + (k - 1)) % Len(TeamNames)) + 1]

GameIds == 1..NumGames

\* interface Team
Team(name, probability) == [name |-> name, probability |-> probability]

\* two answers of /events: the market moves on game 1, and the last game has lost a
\* team in the second
Versions == {1, 2}

\* interface NBAGame, as /events sends it (no prediction)
EventsGame(i, v) ==
    LET q == IF i = 1 /\ v = 2 THEN 550 ELSE 600
    IN  [id         |-> i,
         teams      |-> IF v = 2 /\ i = NumGames /\ i > 1
                        THEN <<Team(TeamName(i, 1), q)>>
                        ELSE <<Team(TeamName(i, 1), q), Team(TeamName(i, 2), Scale - q)>>,
         prediction |-> Null]

EventsResponse(v) == [games |-> [i \in GameIds |-> EventsGame(i, v)]]

\* interface GamePrediction: the home team is team 2 of the odd games, team 1 of the
\* even ones
GamePrediction(i) ==
    [home_team            |-> TeamName(i, IF i % 2 = 1 THEN 2 ELSE 1),
     home_win_probability |-> 700,
     away_win_probability |-> 300,
     predicted_winner     |-> TeamName(i, IF i % 2 = 1 THEN 2 ELSE 1),
     confidence           |-> 650 + 50 * (i % 3)]

PredictionsResponse ==
    [games          |-> [i \in GameIds |-> [id |-> i, prediction |-> GamePrediction(i)]],
     model_accuracy |-> 650]

\* new Error(`API error: ${res.status}`) of apiFetch, and the TypeError of fetch()
ApiErrorMessage    == <<"API", " ", "error", ":", " ", "500">>
FailedFetchMessage == <<"Failed", " ", "to", " ", "fetch">>

\* how fetchAllNBA() settles
EventsOutcomes ==
    {[ok |-> TRUE, value |-> EventsResponse(v)] : v \in Versions}
        \cup {[ok |-> FALSE, message |-> m] : m \in {ApiErrorMessage, FailedFetchMessage}}

\* how fetchPredictions().catch(() => null) settles
PredictionsOutcomes == {Null, PredictionsResponse}

----------------------------------------------------------------------------
(* The Home page: handlePickTeam, loadData and the ParlayBuilder callbacks. *)

\* newLeg with the neutral 0.5 for a game without a prediction
NewLegNeutral(game, teamName) ==
    LET pred  == game.prediction
        teams == game.teams
        both  == Len(teams) >= 2
        t1    == teams[1]
        t2    == teams[2]
        t1Lower   == ToLowerCase(t1.name)
        homeLower == ToLowerCase(pred.home_team)
        isT1Home  == Includes(t1Lower, homeLower) \/ Includes(homeLower, t1Lower)
        modelProb ==
            IF pred # Null /\ both
            THEN IF teamName = t1.name
                 THEN (IF isT1Home THEN pred.home_win_probability
                       ELSE pred.away_win_probability)
                 ELSE (IF isT1Home THEN pred.away_win_probability
                       ELSE pred.home_win_probability)
            ELSE Scale \div 2
        marketProb ==
            IF both
            THEN (IF teamName = t1.name THEN t1.probability ELSE t2.probability)
            ELSE Scale \div 2
    IN  [game |-> game, pickedTeam |-> teamName, modelProb |-> modelProb,
         marketProb |-> marketProb]

\* the probabilities handlePickTeam gives the picked team
NewLeg(game, teamName) ==
    LET pred  == game.prediction
        teams == game.teams
        both  == Len(teams) >= 2
        t1    == teams[1]
        t2    == teams[2]
        t1Lower   == ToLowerCase(t1.name)
        homeLower == ToLowerCase(pred.home_team)
        isT1Home  == Includes(t1Lower, homeLower) \/ Includes(homeLower, t1Lower)
        modelProb ==
            IF pred # Null /\ both
            THEN IF teamName = t1.name
                 THEN (IF isT1Home THEN pred.home_win_probability
                       ELSE pred.away_win_probability)
                 ELSE (IF isT1Home THEN pred.away_win_probability
                       ELSE pred.home_win_probability)
            ELSE IF both
            THEN (IF teamName = t1.name THEN t1.probability ELSE t2.probability)
            ELSE Scale \div 2
        marketProb ==
            IF both
            THEN (IF teamName = t1.name THEN t1.probability ELSE t2.probability)
            ELSE Scale \div 2
    IN  [game |-> game, pickedTeam |-> teamName, modelProb |-> modelProb,
         marketProb |-> marketProb]

\* prev.filter((l) => l.game.id !== gameId)
WithoutGame(prev, gameId) ==
    FilterIdx(prev, {i \in 1..Len(prev) : prev[i].game.id # gameId}, 1)

\* handlePickTeam without the look-up of the existing leg: every click adds a leg
HandlePickTeamAlwaysAdds(prev, game, teamName) ==
    Append(prev, NewLeg(game, teamName))

\* handlePickTeam without the toggle: a click on the picked team stores it again
HandlePickTeamNoToggle(prev, game, teamName) ==
    IF \E i \in 1..Len(prev) : prev[i].game.id = game.id
    THEN [i \in 1..Len(prev) |->
             IF prev[i].game.id = game.id THEN NewLeg(game, teamName) ELSE prev[i]]
    ELSE Append(prev, NewLeg(game, teamName))

\* handlePickTeam that moves a switched leg to the end of the parlay
HandlePickTeamMovesLeg(prev, game, teamName) ==
    IF \E i \in 1..Len(prev) : prev[i].game.id = game.id /\ prev[i].pickedTeam = teamName
    THEN WithoutGame(prev, game.id)
    ELSE Append(WithoutGame(prev, game.id), NewLeg(game, teamName))

\* the updater handlePickTeam hands to setParlayLegs
HandlePickTeam(prev, game, teamName) ==
    LET found    == {i \in 1..Len(prev) : prev[i].game.id = game.id}
        existing == prev[CHOOSE i \in found : \A j \in found : i <= j]
    IN  IF found # {} /\ existing.pickedTeam = teamName
        THEN WithoutGame(prev, game.id)
        ELSE IF found # {}
        THEN [i \in 1..Len(prev) |->
                 IF prev[i].game.id = game.id THEN NewLeg(game, teamName) ELSE prev[i]]
        ELSE Append(prev, NewLeg(game, teamName))

\* onRemoveLeg with the test of the filter inverted
OnRemoveLegKeepsGame(prev, gameId) ==
    FilterIdx(prev, {i \in 1..Len(prev) : prev[i].game.id = gameId}, 1)

\* onRemoveLeg of the ParlayBuilder element
OnRemoveLeg(prev, gameId) == WithoutGame(prev, gameId)

\* onClear of the ParlayBuilder element: setParlayLegs([]), whatever prev is
OnClear(prev) == <<>>

\* buildParlayLeg that matches the home team by equal names, not by substring
BuildParlayLegExactHome(game, teamName) ==
    LET pred  == game.prediction
        teams == game.teams
        both  == Len(teams) >= 2
        t1    == teams[1]
        t2    == teams[2]
        isT1Home == ToLowerCase(t1.name) = ToLowerCase(pred.home_team)
        viaModel ==
            IF teamName = t1.name
            THEN <<IF isT1Home THEN pred.home_win_probability
                   ELSE pred.away_win_probability, t1.probability>>
            ELSE <<IF isT1Home THEN pred.away_win_probability
                   ELSE pred.home_win_probability, t2.probability>>
        viaMarket ==
            LET marketProb == IF teamName = t1.name THEN t1.probability
                              ELSE t2.probability
            IN  <<marketProb, marketProb>>
        probs == IF pred # Null /\ both THEN viaModel
                 ELSE IF both THEN viaMarket
                 ELSE <<Scale \div 2, Scale \div 2>>
    IN  [game |-> game, pickedTeam |-> teamName, modelProb |-> probs[1],
         marketProb |-> probs[2]]

\* buildParlayLeg(game, teamName) of SuggestedParlays, which the component calls
\* on the games that have a prediction and two teams
BuildParlayLeg(game, teamName) ==
    LET pred  == game.prediction
        teams == game.teams
        both  == Len(teams) >= 2
        t1    == teams[1]
        t2    == teams[2]
        isT1Home ==
            \/ Includes(ToLowerCase(t1.name), ToLowerCase(pred.home_team))
            \/ Includes(ToLowerCase(pred.home_team), ToLowerCase(t1.name))
        viaModel ==
            IF teamName = t1.name
            THEN <<IF isT1Home THEN pred.home_win_probability
                   ELSE pred.away_win_probability, t1.probability>>
            ELSE <<IF isT1Home THEN pred.away_win_probability
                   ELSE pred.home_win_probability, t2.probability>>
        viaMarket ==
            LET marketProb == IF teamName = t1.name THEN t1.probability
                              ELSE t2.probability
            IN  <<marketProb, marketProb>>
        probs == IF pred # Null /\ both THEN viaModel
                 ELSE IF both THEN viaMarket
                 ELSE <<Scale \div 2, Scale \div 2>>
    IN  [game |-> game, pickedTeam |-> teamName, modelProb |-> probs[1],
         marketProb |-> probs[2]]

\* gamesWithPreds of SuggestedParlays
GamesWithPreds(gs) ==
    SelectSeq(gs, LAMBDA g : g.prediction # Null /\ Len(g.teams) = 2)

\* one step of the stable sort: g goes behind the games at least as confident
InsertByConfidence(g, sorted) ==
    LET ahead == {i \in 1..Len(sorted) :
                     sorted[i].prediction.confidence >= g.prediction.confidence}
        k     == Cardinality(ahead)
    IN  SubSeq(sorted, 1, k) \o <<g>> \o SubSeq(sorted, k + 1, Len(sorted))

RECURSIVE ByConfidence(_)
\* [...gamesWithPreds].sort((a, b) => b.prediction.confidence - a.prediction.confidence)
ByConfidence(gs) ==
    IF gs = <<>> THEN <<>>
    ELSE InsertByConfidence(gs[Len(gs)], ByConfidence(SubSeq(gs, 1, Len(gs) - 1)))

\* s.slice(0, n)
Slice(s, n) == SubSeq(s, 1, IF n < Len(s) THEN n ELSE Len(s))

\* modelFavIsT1 and marketFavIsT1 of the edge and chalk filters
ModelFavIsT1(g) ==
    LET pred == g.prediction
        isT1Home ==
            \/ Includes(ToLowerCase(g.teams[1].name), ToLowerCase(pred.home_team))
            \/ Includes(ToLowerCase(pred.home_team), ToLowerCase(g.teams[1].name))
    IN  IF isT1Home THEN pred.home_win_probability > pred.away_win_probability
        ELSE pred.away_win_probability > pred.home_win_probability

MarketFavIsT1(g) == g.teams[1].probability > g.teams[2].probability

\* the legs of a suggestion: buildParlayLeg(g, g.prediction.predicted_winner)
WinnerLegs(gs) ==
    [i \in 1..Len(gs) |-> BuildParlayLeg(gs[i], gs[i].prediction.predicted_winner)]

Suggestion(name, legs) == [name |-> name, legs |-> legs]

\* the suggestions SuggestedParlays pushes, in order, without the display texts
Suggestions(gs) ==
    LET gamesWithPreds == GamesWithPreds(gs)
        safeLegs   == WinnerLegs(Slice(ByConfidence(gamesWithPreds), 2))
        edgeGames  == SelectSeq(gamesWithPreds,
                                LAMBDA g : ModelFavIsT1(g) # MarketFavIsT1(g))
        chalkGames == SelectSeq(gamesWithPreds,
                                LAMBDA g : /\ ModelFavIsT1(g) = MarketFavIsT1(g)
                                           /\ 100 * g.prediction.confidence > 55 * Scale)
    IN  IF Len(gamesWithPreds) < 2 THEN <<>>
        ELSE (IF Len(safeLegs) >= 2 THEN <<Suggestion("Safe Pick", safeLegs)>>
              ELSE <<>>)
             \o (IF Len(edgeGames) >= 2
                 THEN <<Suggestion("Edge Finder", WinnerLegs(Slice(edgeGames, 3)))>>
                 ELSE <<>>)
             \o (IF Len(gamesWithPreds) >= 3
                 THEN <<Suggestion("Big Payout", WinnerLegs(Slice(gamesWithPreds, 5)))>>
                 ELSE <<>>)
             \o (IF Len(chalkGames) >= 2
                 THEN <<Suggestion("Chalk Play", WinnerLegs(Slice(chalkGames, 3)))>>
                 ELSE <<>>)

\* gamesWithPredictions of Home
GamesWithPredictions(gs) == Len(SelectSeq(gs, LAMBDA g : g.prediction # Null))

\* onApplyParlay with the suggestion added to the picks already made
OnApplyParlayMerges(prev, legs) == prev \o legs

\* onApplyParlay of Home: setParlayLegs(legs)
OnApplyParlay(prev, legs) == legs

\* predMap.get(id)?.prediction ?? null, predMap filled in the order of predGames
PredMapGet(predGames, id) ==
    LET at == {i \in 1..Len(predGames) : predGames[i].id = id}
    IN  IF at = {} THEN Null
        ELSE predGames[CHOOSE i \in at : \A j \in at : j <= i].prediction

\* mergedGames of loadData
MergedGames(nbaGames, predGames) ==
    [i \in 1..Len(nbaGames) |->
        [nbaGames[i] EXCEPT !.prediction = PredMapGet(predGames, nbaGames[i].id)]]

\* the two texts of setError
BackendNotConnected ==
    [text |-> "Backend not connected. Start the FastAPI server on port 8000."]
FailedToLoad == [text |-> "Failed to load events."]

\* The state of Home that the parlay and the loads read or write.  futures,
\* selectedFuture, modelAccuracy and activeTab are left out: no handler modelled here
\* reads them (the cards are on the default tab).  inflight holds the loadData()
\* calls awaiting their fetches: the one of the mount effect, the one of refresh().
VARIABLES games, loading, error, refreshing, parlayLegs, parlayOpen, inflight,
          value, messages, isLoading, isOpen, requests

\* The state of the PromptBar the page renders: the text of the input, the
\* transcript, the two flags, and the sendChatMessage() calls awaiting their answer
\* (the questions sent, oldest first).
chatVars == <<value, messages, isLoading, isOpen, requests>>

homeVars == <<games, loading, error, refreshing, parlayLegs, parlayOpen, inflight>>

vars == <<homeVars, chatVars>>

\* PromptBar after its first render: useState(""), useState([]), useState(false) twice
InitPromptBar ==
    /\ value = <<>>
    /\ messages = <<>>
    /\ isLoading = FALSE
    /\ isOpen = FALSE
    /\ requests = <<>>

\* the page after its first render and the mount effect, whose loadData() is in flight
Init ==
    /\ games = <<>>
    /\ loading = TRUE
    /\ error = Null
    /\ refreshing = FALSE
    /\ parlayLegs = <<>>
    /\ parlayOpen = FALSE
    /\ inflight = {"mount"}
    /\ InitPromptBar

\* the Refresh button (disabled while refreshing): refresh() up to loadData's await
Refresh ==
    /\ ~refreshing
    /\ refreshing' = TRUE
    /\ loading' = TRUE
    /\ error' = Null
    /\ inflight' = inflight \cup {"refresh"}
    /\ UNCHANGED <<games, parlayLegs, parlayOpen, chatVars>>

\* loadData whose predictions request is awaited without the catch
SettleWithoutCatch(k, events, predData) ==
    /\ k \in inflight
    /\ IF events.ok /\ predData # Null
       THEN /\ games' = MergedGames(events.value.games, predData.games)
            /\ error' = error
       ELSE /\ games' = games
            /\ error' = IF ~events.ok /\ Includes(events.message, <<"API", " ", "error">>)
                        THEN BackendNotConnected ELSE FailedToLoad
    /\ loading' = FALSE
    /\ refreshing' = IF k = "refresh" THEN FALSE ELSE refreshing
    /\ inflight' = inflight \ {k}
    /\ UNCHANGED <<parlayLegs, parlayOpen, chatVars>>

\* loadData that empties the parlay when new games arrive
SettleResetsParlay(k, events, predData) ==
    /\ k \in inflight
    /\ IF events.ok
       THEN /\ games' = IF predData # Null
                        THEN MergedGames(events.value.games, predData.games)
                        ELSE events.value.games
            /\ error' = error
            /\ parlayLegs' = <<>>
       ELSE /\ games' = games
            /\ error' = IF Includes(events.message, <<"API", " ", "error">>)
                        THEN BackendNotConnected ELSE FailedToLoad
            /\ parlayLegs' = parlayLegs
    /\ loading' = FALSE
    /\ refreshing' = IF k = "refresh" THEN FALSE ELSE refreshing
    /\ inflight' = inflight \ {k}
    /\ UNCHANGED <<parlayOpen, chatVars>>

\* loadData() from its await to its end, and for a refresh the rest of refresh()
Settle(k, events, predData) ==
    /\ k \in inflight
    /\ IF events.ok
       THEN /\ games' = IF predData # Null
                        THEN MergedGames(events.value.games, predData.games)
                        ELSE events.value.games
            /\ error' = error
       ELSE /\ games' = games
            /\ error' = IF Includes(events.message, <<"API", " ", "error">>)
                        THEN BackendNotConnected ELSE FailedToLoad
    /\ loading' = FALSE
    /\ refreshing' = IF k = "refresh" THEN FALSE ELSE refreshing
    /\ inflight' = inflight \ {k}
    /\ UNCHANGED <<parlayLegs, parlayOpen, chatVars>>

\* a click on a team of a game card: handlePickTeam(game, teamName).  The cards are
\* rendered once loading is over without error; the open panel's backdrop covers
\* them for the mouse only, so the panel need not be closed
PickTeam(game, teamName) ==
    /\ ~loading /\ error = Null
    /\ Len(game.teams) >= 2
    /\ teamName \in {game.teams[1].name, game.teams[2].name}
    /\ parlayLegs' = HandlePickTeam(parlayLegs, game, teamName)
    /\ parlayOpen' = TRUE
    /\ UNCHANGED <<games, loading, error, refreshing, inflight, chatVars>>

\* the remove button of leg i in the open panel: onRemoveLeg(leg.game.id)
RemoveLeg(i) ==
    /\ parlayOpen
    /\ i \in 1..Len(parlayLegs)
    /\ parlayLegs' = OnRemoveLeg(parlayLegs, parlayLegs[i].game.id)
    /\ UNCHANGED <<games, loading, error, refreshing, parlayOpen, inflight, chatVars>>

\* the Clear All button of the open panel, shown while there are legs
Clear ==
    /\ parlayOpen
    /\ Len(parlayLegs) > 0
    /\ parlayLegs' = OnClear(parlayLegs)
    /\ UNCHANGED <<games, loading, error, refreshing, parlayOpen, inflight, chatVars>>

\* the floating button, the backdrop and the close button: onToggle
Toggle ==
    /\ parlayOpen' = ~parlayOpen
    /\ UNCHANGED <<games, loading, error, refreshing, parlayLegs, inflight, chatVars>>

\* a click on a card of SuggestedParlays, rendered on the games tab when more
\* than one game has a prediction: onApplyParlay(s.legs)
ApplyParlay(legs) ==
    /\ ~loading /\ error = Null
    /\ GamesWithPredictions(games) > 1
    /\ parlayLegs' = OnApplyParlay(parlayLegs, legs)
    /\ parlayOpen' = TRUE
    /\ UNCHANGED <<games, loading, error, refreshing, inflight, chatVars>>

Applies ==
    \E k \in 1..Len(Suggestions(games)) : ApplyParlay(Suggestions(games)[k].legs)

LoadSettles ==
    \E k \in {"mount", "refresh"}, events \in EventsOutcomes,
       predData \in PredictionsOutcomes : Settle(k, events, predData)

Picks ==
    \E i \in 1..Len(games) : \E k \in 1..2 :
        /\ Len(games[i].teams) >= 2
        /\ PickTeam(games[i], games[i].teams[k].name)

Removes == \E i \in 1..Len(parlayLegs) : RemoveLeg(i)

Next == Refresh \/ LoadSettles \/ Picks \/ Applies \/ Removes \/ Clear \/ Toggle

Spec == Init /\ [][Next]_vars

----------------------------------------------------------------------------
(* The valuation on its own: the panel is open on a parlay of given        *)
(* probabilities, and legs are removed from it.  Every leg is the leg      *)
(* handlePickTeam stores for a game the backend sent.                      *)

\* parlays of up to MaxEvalLegs legs take every combination of PairSet; the longer
\* ones, up to MaxLongLegs legs, repeat one pair
MaxEvalLegs == 3
MaxLongLegs == 6

\* game i with model probability m and market probability k for its first team
EvalGame(i, m, k) ==
    [id         |-> i,
     teams      |-> <<Team(TeamName(i, 1), k), Team(TeamName(i, 2), Scale - k)>>,
     prediction |-> [home_team            |-> TeamName(i, 1),
                     home_win_probability |-> m,
                     away_win_probability |-> Scale - m]]

EvalLeg(i, m, k) == HandlePickTeam(<<>>, EvalGame(i, m, k), TeamName(i, 1))[1]

\* <<model, market>> of the legs of the longer parlays
PairSet == {<<700, 600>>, <<120, 600>>, <<410, 600>>, <<970, 600>>}

LongPairSet == {<<700, 600>>, <<300, 250>>, <<999, 600>>}

EvalSingles == {<<EvalLeg(1, q, q)>> : q \in ProbRange}

EvalCombos ==
    UNION {{[i \in 1..n |-> EvalLeg(i, f[i][1], f[i][2])] : f \in [1..n -> PairSet]} :
              n \in 2..MaxEvalLegs}

EvalLongs ==
    {[i \in 1..n |-> EvalLeg(i, pr[1], pr[2])] :
        n \in (MaxEvalLegs + 1)..MaxLongLegs, pr \in LongPairSet}

EvalParlays == EvalSingles \cup EvalCombos \cup EvalLongs

InitEval ==
    /\ games = <<>>
    /\ loading = FALSE
    /\ error = Null
    /\ refreshing = FALSE
    /\ parlayLegs \in EvalParlays
    /\ parlayOpen = TRUE
    /\ inflight = {}
    /\ InitPromptBar

NextEval == Removes \/ Clear

SpecEval == InitEval /\ [][NextEval]_vars

(***************************************************************************)
(* The suggestions on a longer games list.  The list is one of the         *)
(* prefixes of two series of games, the parlay starts empty or with a      *)
(* pick on the last game, and the user applies a suggestion, removes legs  *)
(* or clears the slip.                                                     *)
(***************************************************************************)
MaxSuggestGames == 6

\* the games of a series: <<home win probability of team 1, market probability of
\* team 1, confidence, has a prediction>>
SuggestSeries ==
    {<<<<700, 600, 700, TRUE>>, <<300, 600, 700, TRUE>>, <<650, 400, 650, TRUE>>,
       <<800, 700, 800, TRUE>>, <<400, 600, 600, TRUE>>, <<550, 520, 550, TRUE>>>>,
     <<<<700, 600, 700, TRUE>>, <<500, 500, 500, FALSE>>, <<600, 550, 600, TRUE>>,
       <<300, 300, 700, TRUE>>, <<520, 600, 520, TRUE>>, <<450, 600, 550, TRUE>>>>}

\* game i of a series: team 1 is the home team and the model's favourite is the
\* predicted winner
SuggestGame(i, kind) ==
    [id         |-> i,
     teams      |-> <<Team(TeamName(i, 1), kind[2]), Team(TeamName(i, 2), Scale - kind[2])>>,
     prediction |-> IF kind[4]
                    THEN [home_team            |-> TeamName(i, 1),
                          home_win_probability |-> kind[1],
                          away_win_probability |-> Scale - kind[1],
                          predicted_winner     |-> TeamName(i, IF 2 * kind[1] >= Scale
                                                               THEN 1 ELSE 2),
                          confidence           |-> kind[3]]
                    ELSE Null]

SuggestGames(series, n) ==
    [i \in 1..n |-> SuggestGame(i, series[((i - 1) % Len(series)) + 1])]

InitSuggest ==
    /\ games \in {SuggestGames(series, n) : series \in SuggestSeries, n \in 2..MaxSuggestGames}
    /\ loading = FALSE
    /\ error = Null
    /\ refreshing = FALSE
    /\ parlayLegs \in {<<>>, HandlePickTeam(<<>>, games[Len(games)],
                                             games[Len(games)].teams[1].name)}
    /\ parlayOpen = FALSE
    /\ inflight = {}
    /\ InitPromptBar

NextSuggest == Applies \/ Removes \/ Clear

SpecSuggest == InitSuggest /\ [][NextSuggest]_vars

(***************************************************************************)
(* The panel on a full slip.  The parlay starts with MaxLongLegs legs      *)
(* whose <<model, market>> probabilities are taken in turn from one of     *)
(* the lists below, and the user removes legs one by one or clears the     *)
(* slip, so that every sub-parlay of the slip is evaluated.                *)
(***************************************************************************)
PanelPairs ==
    {<<<<700, 600>>, <<700, 600>>, <<970, 600>>, <<120, 600>>, <<410, 600>>,
       <<850, 900>>>>,
     <<<<300, 250>>, <<550, 450>>, <<720, 700>>, <<650, 600>>, <<1000, 1000>>,
       <<0, 10>>>>,
     <<<<600, 600>>, <<450, 450>>, <<500, 500>>, <<500, 600>>, <<600, 500>>,
       <<449, 551>>>>}

PanelParlay(ps) ==
    [i \in 1..MaxLongLegs |->
        EvalLeg(i, ps[((i - 1) % Len(ps)) + 1][1], ps[((i - 1) % Len(ps)) + 1][2])]

InitPanel ==
    /\ games = <<>>
    /\ loading = FALSE
    /\ error = Null
    /\ refreshing = FALSE
    /\ parlayLegs \in {PanelParlay(ps) : ps \in PanelPairs}
    /\ parlayOpen = TRUE
    /\ inflight = {}
    /\ InitPromptBar

NextPanel == Removes \/ Clear

SpecPanel == InitPanel /\ [][NextPanel]_vars

----------------------------------------------------------------------------
(* The chat prompt bar of the page: PromptBar().  A text is the sequence   *)
(* of its characters.                                                      *)

\* the transcript the model follows a conversation up to
MaxMessages == 4

\* s.trim()
RECURSIVE TrimStart(_)
TrimStart(s) ==
    IF s # <<>> /\ Head(s) = " " THEN TrimStart(Tail(s)) ELSE s

RECURSIVE TrimEnd(_)
TrimEnd(s) ==
    IF s # <<>> /\ s[Len(s)] = " " THEN TrimEnd(SubSeq(s, 1, Len(s) - 1)) ELSE s

Trim(s) == TrimEnd(TrimStart(s))

\* the first two of the six SUGGESTIONS
SUGGESTIONS ==
    <<
      <<"W", "h", "o", "'", "s", " ", "g", "o", "n", "n", "a", " ", "w", "i", "n", " ",
        "t", "o", "n", "i", "g", "h", "t", "?">>,
      <<"W", "h", "a", "t", "'", "s", " ", "t", "h", "e", " ", "s", "a", "f", "e", "s",
        "t", " ", "b", "e", "t", " ", "t", "o", "d", "a", "y", "?">>
    >>

\* the first of the three quick follow-ups of the panel
FollowUps ==
    <<
      <<"T", "e", "l", "l", " ", "m", "e", " ", "m", "o", "r", "e">>
    >>

\* what the user leaves in the input: nothing, blanks, a question between blanks
Typed == {<<>>, <<" ">>, <<" ", "h", "i", " ">>}

\* data.response of a reply of /api/chat/
Responses == {<<"o", "k">>}

\* the text shown when sendChatMessage() rejects, by its words
ConnectionError ==
    <<"Connection", "error", EmDash, "make", "sure", "the", "backend", "is", "running.">>

\* interface ChatMessage
ChatMessage(role, content) == [role |-> role, content |-> content]

\* handleSubmit(question) up to its await: the question, or the input when there
\* is none, is trimmed; nothing happens for an empty text or while a request is
\* loading; sendChatMessage(msg) is then in flight
HandleSubmit(question) ==
    LET msg == Trim(IF question # <<>> THEN question ELSE value)
    IN  /\ msg # <<>>
        /\ ~isLoading
        /\ Len(messages) + Len(requests) + 2 <= MaxMessages
        /\ isOpen' = TRUE
        /\ value' = <<>>
        /\ messages' = Append(messages, ChatMessage("user", msg))
        /\ isLoading' = TRUE
        /\ requests' = Append(requests, msg)
        /\ UNCHANGED homeVars

\* the request i without the others
WithoutRequest(i) == SubSeq(requests, 1, i - 1) \o SubSeq(requests, i + 1, Len(requests))

\* handleSubmit after its await: the request i has settled with a reply or with a
\* rejection; the finally block ends the loading
Settled(i, content) ==
    /\ requests' = WithoutRequest(i)
    /\ messages' = Append(messages, ChatMessage("assistant", content))
    /\ isLoading' = FALSE
    /\ UNCHANGED <<value, isOpen, homeVars>>

\* onChange of the input, which is disabled while loading
Types ==
    /\ ~isLoading
    /\ \E text \in Typed : value' = text /\ text # value
    /\ UNCHANGED <<messages, isLoading, isOpen, requests, homeVars>>

\* the form is submitted: handleFormSubmit()
SubmitsInput ==
    /\ ~isLoading
    /\ HandleSubmit(<<>>)

\* a click on a suggestion, shown while there are no messages and the panel is closed
SubmitsSuggestion ==
    /\ messages = <<>> /\ ~isOpen
    /\ \E k \in 1..Len(SUGGESTIONS) : HandleSubmit(SUGGESTIONS[k])

\* a click on a quick follow-up, shown in the panel under an assistant's message
SubmitsFollowUp ==
    /\ isOpen /\ messages # <<>>
    /\ ~isLoading /\ messages[Len(messages)].role = "assistant"
    /\ \E k \in 1..Len(FollowUps) : HandleSubmit(FollowUps[k])

ReplyArrives ==
    \E i \in 1..Len(requests), response \in Responses : Settled(i, response)

RequestFails == \E i \in 1..Len(requests) : Settled(i, ConnectionError)

\* clearChat(), the Clear button of the open panel
ClearChat ==
    /\ isOpen /\ messages # <<>>
    /\ messages' = <<>>
    /\ isOpen' = FALSE
    /\ UNCHANGED <<value, isLoading, requests, homeVars>>

\* the close button of the open panel
ClosePanel ==
    /\ isOpen /\ messages # <<>>
    /\ isOpen' = FALSE
    /\ UNCHANGED <<value, messages, isLoading, requests, homeVars>>

\* the Escape key
Escape ==
    /\ isOpen' = FALSE
    /\ UNCHANGED <<value, messages, isLoading, requests, homeVars>>

\* onFocus of the input, which is disabled while loading
Focus ==
    /\ ~isLoading
    /\ messages # <<>>
    /\ isOpen' = TRUE
    /\ UNCHANGED <<value, messages, isLoading, requests, homeVars>>

NextChat ==
    \/ Types \/ SubmitsInput \/ SubmitsSuggestion \/ SubmitsFollowUp
    \/ ReplyArrives \/ RequestFails
    \/ ClearChat \/ ClosePanel \/ Escape \/ Focus

SpecChat == Init /\ [][NextChat]_vars

----------------------------------------------------------------------------
(* The parlay's legs.                                                      *)

\* the games a card can show: every game of every answer, with and without prediction
PossibleGames ==
    UNION {{EventsGame(i, v), MergedGames(<<EventsGame(i, v)>>, PredictionsResponse.games)[1]} :
              i \in GameIds, v \in Versions}

\* the card of game is on the page with both its teams
Pickable(game) == Len(game.teams) >= 2

LegsOf(legs, gameId) == {j \in 1..Len(legs) : legs[j].game.id = gameId}

\* C1: in every state reached from the empty parlay by picks, removals and clears
\* (around any data loads), no two legs of the parlay are on the same game id.
C1_OneLegPerGame ==
    \A i, j \in 1..Len(parlayLegs) :
        i # j => parlayLegs[i].game.id # parlayLegs[j].game.id

\* picks on every game have been made: the parlay holds a leg for each
C1_Witness ==
    /\ Len(parlayLegs) >= 2
    /\ \A g \in GameIds : LegsOf(parlayLegs, g) # {}

\* C2: whenever the parlay has no leg for a game, picking a team of it and then
\* picking the same team again (on the same card or on the card a reload redrew)
\* gives back exactly the parlay, legs and order; so it does on the empty parlay.
C2_ToggleRoundTrip ==
    \A i \in 1..Len(games) : \A again \in PossibleGames : \A k \in 1..2 :
        (/\ Pickable(games[i]) /\ Pickable(again)
         /\ again.id = games[i].id
         /\ LegsOf(parlayLegs, games[i].id) = {})
        => LET s == games[i].teams[k].name
           IN  /\ HandlePickTeam(parlayLegs, games[i], s) # parlayLegs
               /\ HandlePickTeam(HandlePickTeam(parlayLegs, games[i], s), again, s)
                      = parlayLegs

\* a non-empty parlay without a leg for a game whose card can be clicked
C2_Witness ==
    /\ ~loading /\ error = Null
    /\ Len(parlayLegs) >= 1
    /\ \E i \in 1..Len(games) :
           /\ Pickable(games[i])
           /\ LegsOf(parlayLegs, games[i].id) = {}
           /\ Len(HandlePickTeam(parlayLegs, games[i], games[i].teams[1].name))
                  = Len(parlayLegs) + 1

\* C3: when the parlay has a leg for a game with one team picked, picking the other
\* team keeps the number of legs, leaves one leg for the game, at the same position
\* and now with the other team, and leaves every other leg as it was.
C3_SwitchSides ==
    \A i \in 1..Len(games) : \A k \in 1..2 : \A pos \in 1..Len(parlayLegs) :
        (/\ Pickable(games[i])
         /\ parlayLegs[pos].game.id = games[i].id
         /\ parlayLegs[pos].pickedTeam # games[i].teams[k].name)
        => LET r == HandlePickTeam(parlayLegs, games[i], games[i].teams[k].name)
           IN  /\ Len(r) = Len(parlayLegs)
               /\ LegsOf(r, games[i].id) = {pos}
               /\ r[pos].pickedTeam = games[i].teams[k].name
               /\ \A j \in 1..Len(parlayLegs) : j # pos => r[j] = parlayLegs[j]

\* a parlay of several legs, the first of which is on a game whose card offers the
\* other team
C3_Witness ==
    /\ ~loading /\ error = Null
    /\ Len(parlayLegs) >= 2
    /\ \E i \in 1..Len(games) : \E k \in 1..2 :
           /\ Pickable(games[i])
           /\ parlayLegs[1].game.id = games[i].id
           /\ parlayLegs[1].pickedTeam # games[i].teams[k].name
           /\ HandlePickTeam(parlayLegs, games[i], games[i].teams[k].name)[1].pickedTeam
                  = games[i].teams[k].name

\* C4: removing a game id takes out the leg on that game and keeps the other legs
\* in their order; with no leg on that game the parlay stays as it is; clearing
\* gives the empty parlay.
C4_RemoveAndClear ==
    /\ \A g \in GameIds \cup {0} :
           LET at == LegsOf(parlayLegs, g)
               r  == OnRemoveLeg(parlayLegs, g)
           IN  /\ at = {} => r = parlayLegs
               /\ \A pos \in at :
                      r = SubSeq(parlayLegs, 1, pos - 1)
                              \o SubSeq(parlayLegs, pos + 1, Len(parlayLegs))
    /\ OnClear(parlayLegs) = <<>>

\* the open panel shows several legs, each with its remove button, and Clear All
C4_Witness ==
    /\ parlayOpen
    /\ Len(parlayLegs) >= 2
    /\ Len(OnRemoveLeg(parlayLegs, parlayLegs[1].game.id)) = Len(parlayLegs) - 1

----------------------------------------------------------------------------
(* The valuation.                                                          *)

\* the same number: the same double, or 0 and -0
SameNumber(a, b) == a = b \/ (a.cls = "zero" /\ b.cls = "zero")

\* the single leg of the parlay has probability q/Scale, model and market
SingleLeg(q) ==
    /\ Len(parlayLegs) = 1
    /\ parlayLegs[1].modelProb = q
    /\ parlayLegs[1].marketProb = q

\* every probability of the parlay lies in [0, 1]
InUnitInterval(legs) ==
    \A i \in 1..Len(legs) :
        legs[i].modelProb \in 0..Scale /\ legs[i].marketProb \in 0..Scale

\* C5: on the empty parlay the panel derives combined model probability 0, combined
\* market probability 0, market decimal odds 0, American odds "+0", the grade of
\* the em dash labelled "Add picks", and no reasoning.
C5_EmptyParlay ==
    Len(parlayLegs) = 0 =>
        /\ CombinedModelProb(parlayLegs) = FZero
        /\ CombinedMarketProb(parlayLegs) = FZero
        /\ MarketDecimalOdds(parlayLegs) = FZero
        /\ ParlayAmericanOdds(parlayLegs) = Str("+", FZero)
        /\ GetParlayGrade(parlayLegs) = Grade(EmDash, "Add picks")
        /\ GenerateParlayReasoning(parlayLegs) = <<>>

\* the open panel after its last leg went
C5_Witness == parlayOpen /\ parlayLegs = <<>>

\* C6: for every non-empty parlay with all probabilities in [0, 1] the market
\* decimal odds, the combined American odds, the edge ratio and the fair payout
\* are finite numbers.
C6_AlwaysFinite ==
    (Len(parlayLegs) >= 1 /\ InUnitInterval(parlayLegs)) =>
        /\ FIsFinite(MarketDecimalOdds(parlayLegs))
        /\ FIsFinite(ParlayAmericanOdds(parlayLegs).num)
        /\ FIsFinite(EdgeRatio(parlayLegs))
        /\ FIsFinite(FairPayout(parlayLegs))

\* the nearest probability of [0, 1]
Clamped(q) == IF q < 0 THEN 0 ELSE IF q > Scale THEN Scale ELSE q

\* C7: a single leg with probability below 0 gets the outputs of probability 0, and
\* one above 1 those of probability 1: decimal odds, American odds and the
\* combined products.
C7_OutOfRangeClamped ==
    \A q \in ProbRange :
        SingleLeg(q) =>
            LET c == <<EvalLeg(1, Clamped(q), Clamped(q))>>
            IN  /\ SameNumber(ProbToDecimalOdds(Num(q)), ProbToDecimalOdds(Num(Clamped(q))))
                /\ ProbToAmericanOdds(Num(q)) = ProbToAmericanOdds(Num(Clamped(q)))
                /\ SameNumber(CombinedModelProb(parlayLegs), CombinedModelProb(c))
                /\ SameNumber(CombinedMarketProb(parlayLegs), CombinedMarketProb(c))
                /\ SameNumber(MarketDecimalOdds(parlayLegs), MarketDecimalOdds(c))

\* C8: a probability of at most 0.01 has American odds "+9999" and decimal odds 100,
\* one of at least 0.99 has American odds "-9999", and for every probability in
\* [0, 1] the decimal odds are at most 100 and the American odds at most 9999 in
\* magnitude.
C8_ClampBoundaries ==
    \A q \in ProbRange :
        SingleLeg(q) =>
            LET american == ProbToAmericanOdds(Num(q))
                decimal  == ProbToDecimalOdds(Num(q))
            IN  /\ q * 100 <= Scale =>
                       american = Str("+", I9999) /\ decimal = I100
                /\ q * 100 >= 99 * Scale => american = Str("", IMinus9999)
                /\ q \in 0..Scale =>
                       FLe(decimal, I100) /\ FLe(FAbs(american.num), I9999)

\* a single leg at the lower clamp, its odds shown as +9999
C8_Witness ==
    \E q \in ProbRange :
        /\ SingleLeg(q)
        /\ q >= 0 /\ q * 100 <= Scale
        /\ LegRow(parlayLegs[1]).legAmericanOdds = Str("+", I9999)

\* the probability q/Scale is within 0.01 of the probability American odds o imply:
\* |o| / (|o| + 100) for negative o, 100 / (o + 100) otherwise
ImpliedWithin(q, o) ==
    LET num  == IF o < 0 THEN -o ELSE 100
        den  == IF o < 0 THEN 100 - o ELSE o + 100
        diff == num * Scale - q * den
    IN  (IF diff < 0 THEN -diff ELSE diff) * 100 <= den * Scale

\* C9: for every probability in [0.01, 0.99] the probability implied by its
\* American odds is within 0.01 of it.
C9_OddsRoundTrip ==
    \A q \in ProbRange :
        (SingleLeg(q) /\ q * 100 >= Scale /\ q * 100 <= 99 * Scale) =>
            ImpliedWithin(q, FToInt(ProbToAmericanOdds(Num(q)).num))

\* a single leg of probability 0.25, whose odds are +300
C9_Witness ==
    /\ SingleLeg(Scale \div 4)
    /\ FToInt(ProbToAmericanOdds(Num(Scale \div 4)).num) = 300

\* the orders in which n legs can be listed
Orders(n) == {f \in [1..n -> 1..n] : \A i, j \in 1..n : i # j => f[i] # f[j]}

\* the figures and the letter grade are the same for every order of the legs
OrderIndependent(legs) ==
    \A f \in Orders(Len(legs)) :
        LET q == [i \in 1..Len(legs) |-> legs[f[i]]]
        IN  /\ SameNumber(CombinedModelProb(q), CombinedModelProb(legs))
            /\ SameNumber(CombinedMarketProb(q), CombinedMarketProb(legs))
            /\ SameNumber(MarketDecimalOdds(q), MarketDecimalOdds(legs))
            /\ GetParlayGrade(q).grade = GetParlayGrade(legs).grade

WithModelProbs(legs, f) ==
    [i \in 1..Len(legs) |-> [legs[i] EXCEPT !.modelProb = f[i]]]

\* the model probabilities of the opposite picks
Complements(legs) == [i \in 1..Len(legs) |-> Scale - legs[i].modelProb]

\* the neutral model probability on every leg
Neutrals(legs) == [i \in 1..Len(legs) |-> Scale \div 2]

RECURSIVE OddsProduct(_, _)
\* probToDecimalOdds(marketProb) multiplied over the first n legs, from 1
OddsProduct(legs, n) ==
    IF n = 0 THEN I1
    ELSE FMul(OddsProduct(legs, n - 1), ProbToDecimalOdds(Num(legs[n].marketProb)))

\* C11: the market decimal odds of a non-empty parlay are the product of
\* probToDecimalOdds(marketProb) over its legs, and a parlay with the same market
\* probabilities but other model probabilities has the same market decimal odds
\* and the same combined American odds.
C11_PayoutFromMarketOnly ==
    Len(parlayLegs) > 0 =>
        /\ MarketDecimalOdds(parlayLegs) = OddsProduct(parlayLegs, Len(parlayLegs))
        /\ \A f \in {Complements(parlayLegs), Neutrals(parlayLegs)} :
              LET other == WithModelProbs(parlayLegs, f)
              IN  /\ MarketDecimalOdds(other) = MarketDecimalOdds(parlayLegs)
                  /\ ParlayAmericanOdds(other) = ParlayAmericanOdds(parlayLegs)

\* three legs whose opposite model probabilities change the grade of the parlay
C11_Witness ==
    /\ Len(parlayLegs) = 3
    /\ GetParlayGrade(WithModelProbs(parlayLegs, Complements(parlayLegs)))
           # GetParlayGrade(parlayLegs)
    /\ ParlayAmericanOdds(WithModelProbs(parlayLegs, Complements(parlayLegs)))
           = ParlayAmericanOdds(parlayLegs)

\* the adjustments of the reference score, in the order they are applied:
\* <<applies, amount>>
ScoreAdjustments(legs) ==
    LET n        == Len(legs)
        combined == ProductOf(ModelProbs(legs), n)
    IN  <<<<\A i \in 1..n :
               \/ legs[i].modelProb > Scale \div 2 /\ legs[i].marketProb > Scale \div 2
               \/ legs[i].modelProb < Scale \div 2 /\ legs[i].marketProb < Scale \div 2,
            20>>,
          <<n <= 2, 10>>,
          <<n >= 5, -15>>,
          <<FGt(combined, D03), 10>>,
          <<FLt(combined, D01), -10>>>>

RECURSIVE Adjusted(_, _, _)
\* the score after the first k adjustments
Adjusted(score, adj, k) ==
    IF k = 0 THEN score
    ELSE LET before == Adjusted(score, adj, k - 1)
         IN  IF adj[k][1] THEN FAdd(before, FInt(adj[k][2])) ELSE before

\* the reference score: the average model probability times 50, adjusted
ReferenceScore(legs) ==
    Adjusted(FMul(FDiv(SumOf(ModelProbs(legs), Len(legs)), FInt(Len(legs))), FInt(50)),
             ScoreAdjustments(legs), Len(ScoreAdjustments(legs)))

\* the grades from the best down: <<least score, grade, label>>
GradeTable ==
    <<<<65, "A+", "Strong Parlay">>, <<55, "A", "Great Parlay">>,
      <<45, "B+", "Good Parlay">>, <<35, "B", "Decent">>, <<25, "C", "Risky">>,
      <<15, "D", "Long Shot">>>>

\* the first grade of the table the score reaches, F below all of them
ReferenceGrade(score) ==
    LET reached == {k \in 1..Len(GradeTable) : FGe(score, FInt(GradeTable[k][1]))}
    IN  IF reached = {} THEN [grade |-> "F", label |-> "Degen Mode"]
        ELSE LET k == CHOOSE j \in reached : \A h \in reached : j <= h
             IN  [grade |-> GradeTable[k][2], label |-> GradeTable[k][3]]

\* C12: for every non-empty parlay getParlayGrade returns the grade and label of
\* the reference score (average model probability * 50, +20 when every leg has
\* both probabilities above or both below 0.5, +10 for at most two legs, -15 for
\* five or more, +10 for a combined model probability above 0.30, -10 below 0.10;
\* thresholds 65, 55, 45, 35, 25, 15).
C12_ReferenceGrade ==
    Len(parlayLegs) > 0 =>
        GetParlayGrade(parlayLegs) = ReferenceGrade(ReferenceScore(parlayLegs))

\* five legs that still reach a grade above F after the penalty
C12_Witness ==
    /\ Len(parlayLegs) = 5
    /\ GetParlayGrade(parlayLegs).grade # "F"
    /\ GetParlayGrade(parlayLegs) = ReferenceGrade(ReferenceScore(parlayLegs))

\* two legs, each with model probability at least 0.70 and market probability
\* above 0.5
TwoStrongAgreedLegs(legs) ==
    /\ Len(legs) = 2
    /\ \A i \in 1..2 :
          legs[i].modelProb >= (7 * Scale) \div 10 /\ legs[i].marketProb > Scale \div 2

\* C13: a two-leg parlay whose legs both have model probability >= 0.70 and
\* market probability > 0.5 scores at least 55 and is graded A or A+.
C13_StrongPairGradedA ==
    TwoStrongAgreedLegs(parlayLegs) =>
        /\ FGe(ParlayScore(parlayLegs), I55)
        /\ GetParlayGrade(parlayLegs).grade \in {"A", "A+"}

\* model 0.70 / market 0.60 on each of two legs
C13_Witness ==
    /\ TwoStrongAgreedLegs(parlayLegs)
    /\ \A i \in 1..2 :
          parlayLegs[i].modelProb = (7 * Scale) \div 10
              /\ parlayLegs[i].marketProb = (6 * Scale) \div 10
    /\ GetParlayGrade(parlayLegs).grade = "A+"

\* combinedModelProb * marketPayout, the expected return of a unit stake
ExpectedReturn(legs) ==
    FMul(ProductOf(ModelProbs(legs), Len(legs)), MarketPayout(legs))

\* C14: the expected-value figure is positive exactly when combinedModelProb *
\* marketPayout > 1 and negative exactly when combinedModelProb * marketPayout
\* < 1 (stated for the parlays whose combined model probability is positive, so
\* that the figure is a finite number).
C14_SignOfExpectedValue ==
    (Len(parlayLegs) > 0 /\ FGt(ProductOf(ModelProbs(parlayLegs), Len(parlayLegs)), FZero)) =>
        /\ FGt(ExpectedValue(parlayLegs), FZero) <=> FGt(ExpectedReturn(parlayLegs), I1)
        /\ FLt(ExpectedValue(parlayLegs), FZero) <=> FLt(ExpectedReturn(parlayLegs), I1)

\* the statements of one rule, in the order they appear in the list
OfRule(reasons, rule) == SelectSeq(reasons, LAMBDA r : r.rule = rule)

\* C15: for every non-empty parlay the reasoning list contains exactly one
\* leg-count statement.
C15_ExactlyOneLegCount ==
    Len(parlayLegs) > 0 =>
        Len(OfRule(GenerateParlayReasoning(parlayLegs), "leg count")) = 1

\* C15, amended: the reasoning list of a parlay of two or more legs contains
\* exactly one leg-count statement, and that of a single leg contains none.
C15_LegCountFromTwoLegs ==
    /\ Len(parlayLegs) >= 2 =>
          Len(OfRule(GenerateParlayReasoning(parlayLegs), "leg count")) = 1
    /\ Len(parlayLegs) = 1 =>
          Len(OfRule(GenerateParlayReasoning(parlayLegs), "leg count")) = 0

\* a single leg with statements, none of them on the leg count
C15_Witness ==
    /\ Len(parlayLegs) = 1
    /\ GenerateParlayReasoning(parlayLegs) # <<>>
    /\ OfRule(GenerateParlayReasoning(parlayLegs), "leg count") = <<>>

\* the leg-count variant and tag the number of legs selects
LegCountVariant(n) ==
    IF n = 2 THEN <<"2-leg", "positive">>
    ELSE IF n = 3 THEN <<"3-leg sweet spot", "neutral">>
    ELSE IF n \in {4, 5} THEN <<"aggressive", "negative">>
    ELSE <<"lottery ticket", "negative">>

\* C16: for a parlay of n >= 2 legs the only leg-count statement is the variant
\* n selects: the positive payout-multiplier statement for 2, the neutral sweet
\* spot for 3, the negative aggressive statement for 4 and 5, the negative
\* lottery ticket above 5.
C16_LegCountVariant ==
    Len(parlayLegs) >= 2 =>
        LET lc == OfRule(GenerateParlayReasoning(parlayLegs), "leg count")
        IN  /\ Len(lc) = 1
            /\ <<lc[1].variant, lc[1].type>> = LegCountVariant(Len(parlayLegs))
            /\ Len(parlayLegs) = 2 => lc[1].args = <<ToFixed(OddsProduct(parlayLegs, 2), 1)>>

\* six legs, called a lottery ticket
C16_Witness ==
    /\ Len(parlayLegs) = 6
    /\ \E i \in 1..Len(GenerateParlayReasoning(parlayLegs)) :
          GenerateParlayReasoning(parlayLegs)[i].variant = "lottery ticket"

\* the variants and tags of the statements of one rule
VariantsOf(reasons, rule) ==
    LET rs == OfRule(reasons, rule)
    IN  [i \in 1..Len(rs) |-> <<rs[i].variant, rs[i].type>>]

\* the edge statement the ratio of the combined probabilities selects
EdgeVariant(legs) ==
    LET ratio == FDiv(ProductOf(ModelProbs(legs), Len(legs)),
                      ProductOf(MarketProbs(legs), Len(legs)))
    IN  IF FGt(ratio, D115) THEN <<<<"strong value", "positive">>>>
        ELSE IF FGt(ratio, I1) THEN <<<<"slight edge", "positive">>>>
        ELSE IF FLt(ratio, D085) THEN <<<<"premium", "negative">>>>
        ELSE <<>>

\* the confidence statement the average model probability selects
ConfidenceVariant(legs) ==
    LET average == FDiv(SumOf(ModelProbs(legs), Len(legs)), FInt(Len(legs)))
    IN  IF FGe(average, D065) THEN <<<<"individually strong", "positive">>>>
        ELSE IF FLt(average, D052) THEN <<<<"coin-flip picks", "negative">>>>
        ELSE <<>>

\* the expected-value statement the figure selects
ExpectedValueVariant(legs) ==
    IF FGt(ExpectedValue(legs), I5) THEN <<<<"+EV", "positive">>>>
    ELSE IF FLt(ExpectedValue(legs), IMinus10) THEN <<<<"negative EV", "negative">>>>
    ELSE <<>>

\* C17: the reasoning list of a parlay holds at most one edge-ratio statement
\* (strong value above 1.15, else slight edge above 1, else the negative one
\* below 0.85), at most one average-confidence statement (positive from 0.65,
\* negative below 0.52) and at most one expected-value statement (positive above
\* 5, negative below -10).
C17_AtMostOnePerRule ==
    Len(parlayLegs) > 0 =>
        LET reasons == GenerateParlayReasoning(parlayLegs)
        IN  /\ VariantsOf(reasons, "edge") = EdgeVariant(parlayLegs)
            /\ VariantsOf(reasons, "average confidence") = ConfidenceVariant(parlayLegs)
            /\ VariantsOf(reasons, "expected value") = ExpectedValueVariant(parlayLegs)

\* a ratio above 1.15, which is also above 1, with the one strong-value statement
C17_Witness ==
    /\ Len(parlayLegs) > 0
    /\ FGt(EdgeRatio(parlayLegs), D115)
    /\ VariantsOf(GenerateParlayReasoning(parlayLegs), "edge")
           = <<<<"strong value", "positive">>>>
    /\ Len(VariantsOf(GenerateParlayReasoning(parlayLegs), "expected value")) = 1

\* the rules in the order the specification lists them
RuleOrder ==
    <<"edge", "strong legs", "weak legs", "against market", "consensus",
      "leg count", "average confidence", "expected value">>

\* the position of a rule in that order
RuleIndex(rule) == CHOOSE k \in 1..Len(RuleOrder) : RuleOrder[k] = rule

\* C18: the statements of a reasoning list appear in the fixed rule order (edge
\* ratio, strong legs, weak legs, disagreement legs, full consensus, leg count,
\* average confidence, expected value): no statement of a later rule precedes a
\* statement of an earlier rule.
C18_RuleOrder ==
    LET reasons == GenerateParlayReasoning(parlayLegs)
    IN  /\ \A i \in 1..Len(reasons) : \E k \in 1..Len(RuleOrder) : RuleOrder[k] = reasons[i].rule
        /\ \A i, j \in 1..Len(reasons) :
              i < j => RuleIndex(reasons[i].rule) <= RuleIndex(reasons[j].rule)

\* a list of at least six statements, with a leg statement and the leg count
C18_Witness ==
    LET reasons == GenerateParlayReasoning(parlayLegs)
    IN  /\ Len(reasons) >= 6
        /\ OfRule(reasons, "strong legs") # <<>>
        /\ OfRule(reasons, "leg count") # <<>>

\* the market probability of the team of that name in the game
TeamProbability(game, teamName) ==
    LET k == CHOOSE j \in 1..Len(game.teams) : game.teams[j].name = teamName
    IN  game.teams[k].probability

\* the legs of the parlay picked on a game that carried no prediction
LegsWithoutPrediction == {i \in 1..Len(parlayLegs) : parlayLegs[i].game.prediction = Null}

\* C19: a leg picked for a game whose model prediction is unavailable has the
\* neutral model probability 0.5.
C19_NeutralWithoutPrediction ==
    \A i \in LegsWithoutPrediction : parlayLegs[i].modelProb = Scale \div 2

\* C19, amended: a leg picked for a game whose model prediction is unavailable has
\* the market probability of the picked team as its model probability and as its
\* market probability; buildParlayLeg computes the same for such a game.
C19_MarketWithoutPrediction ==
    /\ \A i \in LegsWithoutPrediction :
          LET l == parlayLegs[i]
          IN  /\ l.modelProb = TeamProbability(l.game, l.pickedTeam)
              /\ l.marketProb = l.modelProb
    /\ \A g \in 1..Len(games) :
          (games[g].prediction = Null /\ Pickable(games[g])) =>
              \A k \in 1..2 :
                  LET name == games[g].teams[k].name
                      leg  == BuildParlayLeg(games[g], name)
                  IN  /\ leg.modelProb = games[g].teams[k].probability
                      /\ leg.marketProb = games[g].teams[k].probability
                      /\ leg = HandlePickTeam(<<>>, games[g], name)[1]

\* after a failed prediction fetch, a leg on a team the market prices away from 0.5
C19_Witness ==
    \E i \in LegsWithoutPrediction :
        /\ parlayLegs[i].modelProb # Scale \div 2
        /\ parlayLegs[i].modelProb = parlayLegs[i].marketProb

\* q/Scale lies strictly between 0.01 and 0.99
StrictlyInside(q) == q * 100 > Scale /\ q * 100 < 99 * Scale

\* C20: for a one-leg parlay whose market probability p satisfies 0.01 < p < 0.99
\* the combined American odds of the parlay are the same string as
\* probToAmericanOdds(p), the odds displayed for the leg.
C20_ConvertersAgree ==
    (Len(parlayLegs) = 1 /\ StrictlyInside(parlayLegs[1].marketProb)) =>
        ParlayAmericanOdds(parlayLegs)
            = ProbToAmericanOdds(Num(parlayLegs[1].marketProb))

\* C20, amended: for a one-leg parlay with 0.01 < p < 0.99 and p # 0.5 the
\* combined American odds and the odds displayed for the leg have the same sign
\* and differ by at most 1; at p = 0.5 the leg shows "-100" and the parlay "+100".
C20_ConvertersAgreeUpToRounding ==
    (Len(parlayLegs) = 1 /\ StrictlyInside(parlayLegs[1].marketProb)) =>
        LET q      == parlayLegs[1].marketProb
            parlay == ParlayAmericanOdds(parlayLegs)
            leg    == ProbToAmericanOdds(Num(q))
            diff   == FToInt(parlay.num) - FToInt(leg.num)
        IN  IF 2 * q = Scale
            THEN leg = Str("", IMinus100) /\ parlay = Str("+", I100)
            ELSE /\ parlay.pre = leg.pre
                 /\ (FToInt(parlay.num) < 0) = (FToInt(leg.num) < 0)
                 /\ diff \in {-1, 0, 1}

\* p = 0.32, where the leg shows "+212" and the parlay "+213"
C20_Witness ==
    /\ SingleLeg((32 * Scale) \div 100)
    /\ ProbToAmericanOdds(Num((32 * Scale) \div 100)) = Str("+", FInt(212))
    /\ ParlayAmericanOdds(parlayLegs) = Str("+", FInt(213))

\* the tags of the statements of one rule
TagsOf(reasons, rule) ==
    LET rs == OfRule(reasons, rule)
    IN  [i \in 1..Len(rs) |-> rs[i].type]

\* one statement with the tag when the condition holds, none otherwise
OneIf(condition, tag) == IF condition THEN <<tag>> ELSE <<>>

\* model and market probability of the leg on the same side of 0.5
SameSide(l) ==
    \/ 2 * l.modelProb > Scale /\ 2 * l.marketProb > Scale
    \/ 2 * l.modelProb < Scale /\ 2 * l.marketProb < Scale

\* C21: for every non-empty parlay the list holds one positive strong-legs
\* statement iff some leg has model probability >= 0.60, one negative weak-legs
\* statement iff some leg has model probability < 0.45, one positive
\* disagreement statement iff some leg has (model > 0.5) different from (market >
\* 0.5), and one positive consensus statement iff there are at least two legs and
\* every leg has both probabilities above 0.5 or both below 0.5.
C21_LegStatements ==
    Len(parlayLegs) > 0 =>
        LET reasons == GenerateParlayReasoning(parlayLegs)
            Legs    == {parlayLegs[i] : i \in 1..Len(parlayLegs)}
        IN  /\ TagsOf(reasons, "strong legs")
                  = OneIf(\E l \in Legs : 10 * l.modelProb >= 6 * Scale, "positive")
            /\ TagsOf(reasons, "weak legs")
                  = OneIf(\E l \in Legs : 100 * l.modelProb < 45 * Scale, "negative")
            /\ TagsOf(reasons, "against market")
                  = OneIf(\E l \in Legs :
                             (2 * l.modelProb > Scale) # (2 * l.marketProb > Scale),
                          "positive")
            /\ TagsOf(reasons, "consensus")
                  = OneIf(Len(parlayLegs) >= 2 /\ \A l \in Legs : SameSide(l),
                          "positive")

\* a single strong leg on the market's side: a strong-legs statement and no
\* consensus statement
C21_Witness ==
    /\ Len(parlayLegs) = 1
    /\ SameSide(parlayLegs[1])
    /\ TagsOf(GenerateParlayReasoning(parlayLegs), "strong legs") = <<"positive">>
    /\ TagsOf(GenerateParlayReasoning(parlayLegs), "consensus") = <<>>

\* the leg is on neither side: no probability above 0.5 and one of them exactly 0.5
OnTheFence(l) ==
    /\ 2 * l.modelProb <= Scale
    /\ 2 * l.marketProb <= Scale
    /\ (2 * l.modelProb = Scale \/ 2 * l.marketProb = Scale)

\* the model favours the pick and the market does not, or the reverse
Disagrees(l) == (2 * l.modelProb > Scale) # (2 * l.marketProb > Scale)

\* C22: for every parlay of at least two legs exactly one of the consensus
\* statement and the disagreement statement is in the list.
C22_ConsensusOrDisagreement ==
    Len(parlayLegs) >= 2 =>
        LET reasons == GenerateParlayReasoning(parlayLegs)
        IN  (OfRule(reasons, "consensus") # <<>>)
                # (OfRule(reasons, "against market") # <<>>)

\* C22, amended: for every parlay of at least two legs the consensus statement
\* and the disagreement statement never appear together, and neither appears
\* exactly when no leg has the model and the market on different sides and some
\* leg has a model or market probability of exactly 0.5 with the other at most 0.5.
C22_ConsensusExcludesDisagreement ==
    Len(parlayLegs) >= 2 =>
        LET reasons   == GenerateParlayReasoning(parlayLegs)
            Legs      == {parlayLegs[i] : i \in 1..Len(parlayLegs)}
            consensus == OfRule(reasons, "consensus") # <<>>
            disagree  == OfRule(reasons, "against market") # <<>>
        IN  /\ ~(consensus /\ disagree)
            /\ (~consensus /\ ~disagree)
                   <=> /\ \A l \in Legs : ~Disagrees(l)
                       /\ \E l \in Legs : OnTheFence(l)

\* two legs, one of them at 0.5 / 0.5, with neither statement
C22_Witness ==
    /\ Len(parlayLegs) = 2
    /\ \E i \in 1..2 : 2 * parlayLegs[i].modelProb = Scale /\ 2 * parlayLegs[i].marketProb = Scale
    /\ OfRule(GenerateParlayReasoning(parlayLegs), "consensus") = <<>>
    /\ OfRule(GenerateParlayReasoning(parlayLegs), "against market") = <<>>

\* every model probability above 0 and every market probability above 0.01
PricedLegs(legs) ==
    \A i \in 1..Len(legs) : legs[i].modelProb > 0 /\ 100 * legs[i].marketProb > Scale

\* C23: for every non-empty parlay whose model probabilities are all > 0 and whose
\* market probabilities are all > 0.01, the strong-value statement comes with the
\* negative expected-value statement, the market-is-more-favourable statement
\* comes with the +EV statement, and no positive edge statement comes with the
\* +EV statement.
C23_EdgeOpposesExpectedValue ==
    (Len(parlayLegs) > 0 /\ PricedLegs(parlayLegs)) =>
        LET reasons == GenerateParlayReasoning(parlayLegs)
            edge    == VariantsOf(reasons, "edge")
            worth   == VariantsOf(reasons, "expected value")
        IN  /\ edge = <<<<"strong value", "positive">>>>
                  => worth = <<<<"negative EV", "negative">>>>
            /\ edge = <<<<"premium", "negative">>>> => worth = <<<<"+EV", "positive">>>>
            /\ (edge # <<>> /\ edge[1][2] = "positive")
                  => worth # <<<<"+EV", "positive">>>>

\* a list with the negative edge statement and the +EV statement
C23_Witness ==
    /\ Len(parlayLegs) > 0
    /\ PricedLegs(parlayLegs)
    /\ VariantsOf(GenerateParlayReasoning(parlayLegs), "edge")
           = <<<<"premium", "negative">>>>
    /\ VariantsOf(GenerateParlayReasoning(parlayLegs), "expected value")
           = <<<<"+EV", "positive">>>>

\* five or more legs, every model probability strictly below 1
ManyUncertainLegs(legs) ==
    Len(legs) >= 5 /\ \A i \in 1..Len(legs) : legs[i].modelProb < Scale

DistinctGames(legs) ==
    \A i, j \in 1..Len(legs) : i # j => legs[i].game.id # legs[j].game.id

\* C25: every suggestion offered has between 2 and 5 legs on pairwise distinct
\* games, applying one replaces the whole parlay with the legs of the suggestion
\* and opens the panel, and no parlay reached has two legs on one game.
C25_ApplyReplacesParlay ==
    /\ [](/\ DistinctGames(parlayLegs)
          /\ \A k \in 1..Len(Suggestions(games)) :
                LET legs == Suggestions(games)[k].legs
                IN  /\ Len(legs) >= 2 /\ Len(legs) <= 5
                    /\ DistinctGames(legs)
                    /\ OnApplyParlay(parlayLegs, legs) = legs)
    /\ [][Applies =>
             /\ \E k \in 1..Len(Suggestions(games)) :
                   parlayLegs' = Suggestions(games)[k].legs
             /\ parlayOpen']_vars

\* the five legs of Big Payout in the open panel, with a sixth game predicted and
\* left out
C25_Witness ==
    /\ parlayOpen
    /\ Len(GamesWithPreds(games)) > 5
    /\ Len(parlayLegs) = 5
    /\ \E k \in 1..Len(Suggestions(games)) :
          /\ Suggestions(games)[k].name = "Big Payout"
          /\ Suggestions(games)[k].legs = parlayLegs

\* the names a leg of the game can be built for: its teams and the predicted winner
LegNames(game) ==
    {game.teams[k].name : k \in 1..Len(game.teams)}
        \cup (IF game.prediction # Null THEN {game.prediction.predicted_winner} ELSE {})

\* team 1 of the game is matched as the home team of its prediction
MatchedAsHome(game) ==
    \/ Includes(ToLowerCase(game.teams[1].name), ToLowerCase(game.prediction.home_team))
    \/ Includes(ToLowerCase(game.prediction.home_team), ToLowerCase(game.teams[1].name))

\* C26: buildParlayLeg gives a leg the model and market probability handlePickTeam
\* stores for the same game and team name: with a prediction and two teams the
\* home or away win probability according to whether the picked team is matched
\* as home, and that team's market probability; with two teams and no prediction
\* the market probability for both; otherwise 0.5 for both.
C26_SuggestedLegAsPicked ==
    \A g \in 1..Len(games) : \A name \in LegNames(games[g]) :
        LET game   == games[g]
            leg    == BuildParlayLeg(game, name)
            picked == HandlePickTeam(<<>>, game, name)[1]
            first  == name = game.teams[1].name
        IN  /\ leg.modelProb = picked.modelProb
            /\ leg.marketProb = picked.marketProb
            /\ IF Len(game.teams) >= 2 /\ game.prediction # Null
               THEN /\ leg.modelProb = IF first = MatchedAsHome(game)
                                       THEN game.prediction.home_win_probability
                                       ELSE game.prediction.away_win_probability
                    /\ leg.marketProb = game.teams[IF first THEN 1 ELSE 2].probability
               ELSE IF Len(game.teams) >= 2
               THEN /\ leg.marketProb = game.teams[IF first THEN 1 ELSE 2].probability
                    /\ leg.modelProb = leg.marketProb
               ELSE leg.modelProb = Scale \div 2 /\ leg.marketProb = Scale \div 2

\* the games shown include one with a prediction whose team 1 is matched as home
\* by substring only, and one that has lost a team
C26_Witness ==
    /\ \E g \in 1..Len(games) :
          /\ Len(games[g].teams) >= 2
          /\ games[g].prediction # Null
          /\ MatchedAsHome(games[g])
          /\ ToLowerCase(games[g].teams[1].name) # ToLowerCase(games[g].prediction.home_team)
          /\ BuildParlayLeg(games[g], games[g].teams[2].name).modelProb
                 = games[g].prediction.away_win_probability
    /\ \E g \in 1..Len(games) :
          /\ Len(games[g].teams) < 2
          /\ BuildParlayLeg(games[g], games[g].teams[1].name).modelProb = Scale \div 2

\* C27: a data load or refresh, from its start to its end and whether it succeeds
\* or fails, leaves the legs of the parlay, with the probabilities they store, and
\* the open flag of the panel unchanged; the legs change only in a pick, a
\* removal, a clear or the application of a suggestion.
C27_LoadsKeepParlay ==
    /\ [][(Refresh \/ LoadSettles) =>
             (parlayLegs' = parlayLegs /\ parlayOpen' = parlayOpen)]_vars
    /\ [][parlayLegs' # parlayLegs => (Picks \/ Applies \/ Removes \/ Clear)]_vars

\* after a reload that moved the market, a leg still holds the game it was picked on
C27_Witness ==
    /\ ~loading
    /\ inflight = {}
    /\ \E i \in 1..Len(parlayLegs) : \E g \in 1..Len(games) :
          /\ games[g].id = parlayLegs[i].game.id
          /\ Len(games[g].teams) >= 2
          /\ games[g].teams[1].probability # parlayLegs[i].game.teams[1].probability

\* the ways the market-data request fails
FailedEvents == {e \in EventsOutcomes : ~e.ok}

\* C28: a load whose predictions request failed and whose market-data request
\* succeeded shows the market games in their order without predictions, leaves
\* the error as it is (null stays null) and ends with loading false; the error
\* message is set only by a load whose market-data request failed, and loading is
\* false after every load settles.
C28_PredictionFailureIsSilent ==
    /\ [][\A k \in {"mount", "refresh"} : \A e \in EventsOutcomes \ FailedEvents :
             Settle(k, e, Null) =>
                 /\ games' = e.value.games
                 /\ \A i \in 1..Len(games') : games'[i].prediction = Null
                 /\ error' = error
                 /\ ~loading']_vars
    /\ [][(error' # error /\ error' # Null) =>
             \E k \in {"mount", "refresh"}, e \in FailedEvents,
                predData \in PredictionsOutcomes :
                 Settle(k, e, predData) /\ error' \in {BackendNotConnected, FailedToLoad}]_vars
    /\ [][LoadSettles => ~loading']_vars

\* the games on the page without predictions and without an error
C28_Witness ==
    /\ inflight = {}
    /\ ~loading
    /\ error = Null
    /\ Len(games) > 0
    /\ \A i \in 1..Len(games) : games[i].prediction = Null

\* the market-data request succeeded
SucceededEvents == EventsOutcomes \ FailedEvents

\* the load k settles in this step with its market-data request in the set
SettlesWith(k, outcomes) ==
    \E e \in outcomes, predData \in PredictionsOutcomes : Settle(k, e, predData)

\* C29: with overlapping loads the loading flag is never false while a load is in
\* flight, and once every load has settled the error banner is shown iff the most
\* recently started load failed.  The load of a refresh in flight is the most
\* recently started one, so when it settles last the banner is shown iff it
\* failed; when the load of the mount settles last with games on the page and no
\* error, the last refresh succeeded, so the banner stays away.
C29_LatestLoadDecidesBanner ==
    /\ [](inflight # {} => loading)
    /\ [][(inflight = {"refresh"} /\ SettlesWith("refresh", SucceededEvents))
             => error' = Null]_vars
    /\ [][(inflight = {"refresh"} /\ SettlesWith("refresh", FailedEvents))
             => error' # Null]_vars
    /\ [][(inflight = {"mount"} /\ games # <<>> /\ error = Null
              /\ SettlesWith("mount", EventsOutcomes))
             => error' = Null]_vars

\* C30: in every state of the chat prompt bar, whatever the order of submits,
\* replies, failures and clears of the chat, at most one request is in flight, the
\* transcript alternates user and assistant messages from a user message on, and
\* its last message is a user's exactly when a request is in flight.
C30_OneRequestAlternatingTranscript ==
    /\ Len(requests) <= 1
    /\ \A i \in 1..Len(messages) :
           messages[i].role = IF i % 2 = 1 THEN "user" ELSE "assistant"
    /\ (messages # <<>> /\ messages[Len(messages)].role = "user") <=> (requests # <<>>)
====
